---- MODULE Spec2Model ----
(***************************************************************************)
(* Model of the libnaomi microkernel thread table, scheduler and syscall   *)
(* dispatcher (homebrew/libnaomi/thread.c).                                *)
(*                                                                         *)
(* A saved register context (an irq_state_t) is modelled by an address.    *)
(* The context allocated for a descriptor is named by the id of that       *)
(* descriptor, except where malloc hands out again the freed context on    *)
(* which the processor is still executing (the only freed context somebody *)
(* still refers to).  0 is the null pointer.                               *)
(***************************************************************************)
EXTENDS Integers, Sequences, FiniteSets, TLC

VARIABLES
    threads,         \* static thread_t *threads[MAX_THREADS]
    thread_counter,  \* uint32_t thread_counter
    current,         \* the context the processor is executing on
    cpu,             \* where the executing code stands (its registers)
    frames,          \* the saved registers of every suspended context
    ret,             \* the value the last call handed back (0: none)
    fault,           \* the program has left defined behaviour and stopped
    freedAt,         \* history: thread_counter when an id was destroyed
    assigned,        \* history: the ids _thread_create handed out, in order
    live_ids,        \* history: ids created and not since passed to destroy
    global_counters, \* static uint32_t *global_counters[MAX_GLOBAL_COUNTERS]
    counter_mem,     \* the uint32_t each counter handle points at
    counter_ret,     \* the uint32_t the last global_counter_value handed back
    counter_init,    \* history: the value global_counter_init stored
    counter_ops,     \* history: the traps 0/1 that found the counter, in order
    info,            \* the thread_info_t the last thread_info call returned
    window,          \* the transport's receive window (packetlib_peek)
    sequence,        \* static uint16_t sequence of message_send
    send_ret,        \* what the last message_send returned
    sent_msgs,       \* history: the message_send calls made
    sent_ok,         \* history: how many message_send calls have returned 0
    recv,            \* the last message_recv: result, *type, *data, *length
    msg_fault,       \* message_recv has left defined behaviour and stopped
    irq_mask,        \* 1 while interrupts are disabled, else 0
    helpers,         \* the calls of table helpers in progress, innermost last
    semaphores       \* static semaphore_t *semaphores[MAX_SEMAPHORES]

\* The variables of the thread table and of the processor.
tvars == <<threads, thread_counter, current, cpu, frames, ret, fault,
           freedAt, assigned, live_ids>>

\* The variables of the global counters.
cvars == <<global_counters, counter_mem, counter_ret, counter_init,
           counter_ops>>

\* The variables outside the thread table and the counters.
ivars == <<info>>

\* The variables of the message codec (netbootmenu/message.c).
mvars == <<window, sequence, send_ret, sent_msgs, sent_ok, recv, msg_fault>>

\* The variables of the interrupt mask and of the helpers that set it.
hvars == <<irq_mask, helpers>>

\* The semaphore table.
svars == <<semaphores>>

xvars == <<ivars, mvars, hvars, svars>>

vars == <<tvars, cvars, xvars>>

(* ------------------------------ bounds -------------------------------- *)

\* MAX_THREADS comes from naomi/thread.h; the model keeps the table small.
MAX_THREADS == 3

\* Ids are handed out while thread_counter <= MaxId (far below 2^32).
MaxId == 4

(* ----------------------------- constants ------------------------------ *)

INT_MIN == (-2147483647) - 1

THREAD_STATE_STOPPED == 0
THREAD_STATE_RUNNING == 1
THREAD_STATE_FINISHED == 2
THREAD_STATE_ZOMBIE == 3
THREAD_STATE_WAITING == 4

THREAD_SCHEDULE_CURRENT == 0
THREAD_SCHEDULE_OTHER == 1
THREAD_SCHEDULE_ANY == 2

Requests == {THREAD_SCHEDULE_CURRENT, THREAD_SCHEDULE_OTHER, THREAD_SCHEDULE_ANY}

\* An empty slot of the table (a null thread_t pointer).
NULL == [null |-> TRUE]

\* "No descriptor": the null result of the find functions.
NoSlot == -1

Slots == 0 .. (MAX_THREADS - 1)

\* Thread ids user code passes to the calls (0 and ids not in the table too).
Tids == 0 .. MaxId

\* Priorities user code passes to thread_priority.
PrioInputs == {INT_MIN, 0, 5}

Ctxs == 1 .. MaxId

\* What a read through a null pointer may yield: a zero word or another one.
Garbage == {0, 1}

MinOf(S) == CHOOSE x \in S : \A y \in S : x <= y

MaxOf(S) == CHOOSE x \in S : \A y \in S : x >= y

(* --------------------------- uint32_t values -------------------------- *)

\* A uint32_t counter value is kept as its two 16-bit halves <<high, low>>.
Half == 2 ^ 16

U32(hi, lo) == <<hi, lo>>

Zero32 == U32(0, 0)

Max32 == U32(Half - 1, Half - 1)

\* *counter + 1 in uint32_t arithmetic.
Add1(v) ==
    IF v[2] = Half - 1 THEN U32((v[1] + 1) % Half, 0) ELSE U32(v[1], v[2] + 1)

\* *counter - 1 in uint32_t arithmetic.
Sub1(v) ==
    IF v[2] = 0 THEN U32((v[1] - 1) % Half, Half - 1) ELSE U32(v[1], v[2] - 1)

(* ------------------------- the find functions ------------------------- *)

_thread_find_by_context(T, context) ==
    LET S == {i \in Slots : T[i] # NULL /\ T[i].context = context}
    IN  IF S = {} THEN NoSlot ELSE MinOf(S)

_thread_find_by_id(T, id) ==
    LET S == {i \in Slots : T[i] # NULL /\ T[i].id = id}
    IN  IF S = {} THEN NoSlot ELSE MinOf(S)

(* ---------------------------- _thread_create -------------------------- *)

\* The descriptor _thread_create builds: memset to 0, then id, priority, state.
NewThread(id, priority) ==
    [id |-> id, priority |-> priority, state |-> THREAD_STATE_STOPPED,
     waiting_semaphore |-> 0, waiting_thread |-> 0,
     main_thread |-> 0, context |-> 0]

\* The first empty slot, or NoSlot when the table is full.
FirstEmptySlot(T) ==
    LET S == {i \in Slots : T[i] = NULL}
    IN  IF S = {} THEN NoSlot ELSE MinOf(S)

\* Mutant: the counter is not advanced.
NextCounter_Same(counter) == counter

\* The id the new descriptor gets and the counter afterwards (thread_counter++).
NextCounter(counter) == counter + 1

\* _thread_create(name, priority): the slot filled (NoSlot: null is returned),
\* the table and the counter afterwards.
_thread_create(T, counter, priority) ==
    LET s == FirstEmptySlot(T)
    IN  IF s = NoSlot
        THEN [slot |-> NoSlot, table |-> T, counter |-> counter]
        ELSE [slot |-> s,
              table |-> [T EXCEPT ![s] = NewThread(counter, priority)],
              counter |-> NextCounter(counter)]

(* ---------------------------- _thread_schedule ------------------------ *)

\* Mutant: the maximum is never bumped, the band stays the idle thread's.
SchedulePriority_NoBump(T, cur, request) == INT_MIN

\* The highest priority that is schedulable (thread.c:201-226).
SchedulePriority(T, cur, request) ==
    MaxOf({INT_MIN} \cup
          {T[i].priority : i \in {j \in Slots :
                /\ T[j] # NULL
                /\ ~(request = THREAD_SCHEDULE_OTHER /\ j = cur)
                /\ T[j].state = THREAD_STATE_RUNNING}})

\* Mutant: the first descriptor of the table, whatever its priority.
RoundRobin_FirstSlot(T, cur, priority) ==
    LET all == {i \in Slots : T[i] # NULL}
    IN  IF all # {} THEN MinOf(all) ELSE NoSlot

\* Round robin within the priority band (thread.c:228-280): the band member
\* after the current thread, else the first band member, else nothing.
RoundRobin(T, cur, priority) ==
    LET band  == {i \in Slots : T[i] # NULL /\ T[i].priority = priority}
        after == {i \in band : cur \in band /\ i > cur}
    IN  IF after # {} THEN MinOf(after)
        ELSE IF band # {} THEN MinOf(band)
        ELSE NoSlot

\* Mutant: the request is not looked at, the band search always runs.
ScheduledSlot_NoCurrentCheck(T, state, request) ==
    LET cur == _thread_find_by_context(T, state)
    IN  IF cur = NoSlot THEN NoSlot
        ELSE RoundRobin(T, cur, SchedulePriority(T, cur, request))

\* The slot of the descriptor whose context _thread_schedule returns; NoSlot
\* where it returns the context it was given (thread.c:185 and 283).
ScheduledSlot(T, state, request) ==
    LET cur == _thread_find_by_context(T, state)
    IN  IF cur = NoSlot THEN NoSlot
        ELSE IF request = THREAD_SCHEDULE_CURRENT
                /\ T[cur].state = THREAD_STATE_RUNNING
        THEN cur
        ELSE RoundRobin(T, cur, SchedulePriority(T, cur, request))

\* Mutant: the scheduler remembers: after a call that returned a value to
\* its caller it keeps the running thread.
_thread_schedule_Stateful(T, state, request) ==
    LET s == ScheduledSlot(T, state, request)
    IN  IF s = NoSlot \/ ret # 0 THEN state ELSE T[s].context

_thread_schedule(T, state, request) ==
    LET s == ScheduledSlot(T, state, request)
    IN  IF s = NoSlot THEN state ELSE T[s].context

(* --------------------------- global counters -------------------------- *)

\* MAX_GLOBAL_COUNTERS comes from naomi/thread.h; the model keeps it small.
MAX_GLOBAL_COUNTERS == 2

\* The addresses malloc may return for a counter.
MaxHandle == 2

\* At most this many increment and decrement traps find a counter.
MaxOps == 4

CSlots == 0 .. (MAX_GLOBAL_COUNTERS - 1)

Handles == 1 .. MaxHandle

\* The handles user code passes: null, those of the table, stale or made up.
HandleInputs == 0 .. MaxHandle

\* The values user code passes to global_counter_init.
InitValues == {Zero32, U32(0, 7), Max32}

\* Mutant: any non-null pointer is taken for a counter.
_global_counter_find_NoTable(G, counter) ==
    IF counter \in Handles THEN counter ELSE 0

\* _global_counter_find: the pointer itself if a slot holds it, else null (0).
_global_counter_find(G, counter) ==
    IF \E i \in CSlots : G[i] # 0 /\ G[i] = counter THEN counter ELSE 0

\* Mutant: the new counter goes to the last empty slot.
FirstEmptyCounterSlot_Last(G) ==
    LET S == {i \in CSlots : G[i] = 0}
    IN  IF S = {} THEN NoSlot ELSE CHOOSE x \in S : \A y \in S : y <= x

FirstEmptyCounterSlot(G) ==
    LET S == {i \in CSlots : G[i] = 0}
    IN  IF S = {} THEN NoSlot ELSE MinOf(S)

\* Mutant: decrement without the test for zero.
DecrementValue_Wraps(v) == Sub1(v)

\* if (counter && *counter > 0) { *counter = *counter - 1; }
DecrementValue(v) == IF v # Zero32 THEN Sub1(v) ELSE v

\* Mutant: the increment counts twice.
IncrementValue_ByTwo(v) == Add1(Add1(v))

\* Mutant: the increment is lost.
IncrementValue_Lost(v) == v

\* if (counter) { *counter = *counter + 1; }
IncrementValue(v) == Add1(v)

\* The counter memory after cases 0 and 1 of the switch; a4 is gp_regs[4].
TrapCounters(G, M, which, a4) ==
    LET c == _global_counter_find(G, a4)
    IN  CASE which = 0 /\ c # 0 -> [M EXCEPT ![c] = IncrementValue(M[c])]
          [] which = 1 /\ c # 0 -> [M EXCEPT ![c] = DecrementValue(M[c])]
          [] OTHER -> M

\* gp_regs[0] after case 2 of the switch.
CounterValue(G, M, a4) ==
    LET c == _global_counter_find(G, a4)
    IN  IF c # 0 THEN M[c] ELSE Zero32

\* History: the trap and its caller appended to the record of the counter.
TrapOps(G, O, which, a4, by) ==
    LET c == _global_counter_find(G, a4)
    IN  IF which \in {0, 1} /\ c # 0
        THEN [O EXCEPT ![c] = Append(O[c], <<which, by>>)]
        ELSE O

OpsDone == LET Sum[h \in 0 .. MaxHandle] ==
                   IF h = 0 THEN 0 ELSE Len(counter_ops[h]) + Sum[h - 1]
           IN  Sum[MaxHandle]

\* No counter exists before the first global_counter_init.
NoCounters ==
    /\ global_counters = [i \in CSlots |-> 0]
    /\ counter_mem = [h \in Handles |-> Zero32]
    /\ counter_ret = Zero32
    /\ counter_init = [h \in Handles |-> Zero32]
    /\ counter_ops = [h \in Handles |-> <<>>]

(* --------------------------- executing code --------------------------- *)

\* Where a piece of code stands: self is the descriptor its _thread_run was
\* given (ctx->thread; 1 for _idle_thread, 2 for main), pc its position, and
\* creating the descriptor a started thread_create has not yet finished.
Cont(self, pc, creating) == [self |-> self, pc |-> pc, creating |-> creating]

\* A frame nobody will resume from (or whose content does not matter).
Dead == Cont(0, "none", 0)

\* _irq_new_state(_thread_run, ctx, ...): a context that starts the trampoline.
EntryFrame(id) == Cont(id, "run", 0)

(* -------------------------- message constants ------------------------- *)

MAX_MESSAGE_LENGTH == 65535

MESSAGE_HEADER_LENGTH == 8

\* MAX_PACKET_LENGTH and MAX_OUTSTANDING_PACKETS come from packet.h; the model
\* keeps packets and the window small.
MAX_PACKET_LENGTH == 10

MAX_OUTSTANDING_PACKETS == 4

\* The longest payload user code sends.
MaxLen == 5

\* At most this many message_send calls are made.
MaxSends == 2

MAX_MESSAGE_DATA_LENGTH == MAX_PACKET_LENGTH - MESSAGE_HEADER_LENGTH

WSlots == 0 .. (MAX_OUTSTANDING_PACKETS - 1)

\* An empty slot of the window (packetlib_peek returns null).
NoPacket == [empty |-> TRUE]

\* A packet of the window: its length in bytes, the four uint16_t fields of
\* the header, the bytes after the header.
Packet(len, type, seq, total, loc, data) ==
    [len |-> len, type |-> type, seq |-> seq, total |-> total, loc |-> loc,
     data |-> data]

\* A byte of a malloc'ed buffer that nothing has been copied to.
Unwritten == 255

\* The caller's variables before the first message_recv.
NoRecv == [ret |-> 0, type |-> 0, data |-> <<>>, length |-> 0]

\* static uint16_t sequence = 1, nothing received, nothing sent.
NoMessages ==
    /\ window = [i \in WSlots |-> NoPacket]
    /\ sequence = 1
    /\ send_ret = 0
    /\ sent_msgs = <<>>
    /\ sent_ok = 0
    /\ recv = NoRecv
    /\ msg_fault = FALSE

(* --------------------------- interrupt mask --------------------------- *)

\* User code runs with interrupts enabled and is in no helper.
NoHelpers ==
    /\ irq_mask = 0
    /\ helpers = <<>>

(* ----------------------------- semaphores ----------------------------- *)

\* MAX_SEMAPHORES comes from naomi/thread.h; the model keeps it small.
MAX_SEMAPHORES == 2

\* The semaphore table after the memset of _thread_init (thread.c:290): every
\* slot null.  No function of thread.c stores a pointer in it.
NoSemaphores == semaphores = [i \in 0 .. (MAX_SEMAPHORES - 1) |-> 0]

(* ----------------------------- thread_info ---------------------------- *)

\* The record memset leaves (the name is not modelled).
ZeroInfo == [priority |-> 0, alive |-> 0, running |-> 0]

\* Mutant: a Waiting thread is not reported alive.
thread_info_NoWaiting(T, tid) ==
    LET s == _thread_find_by_id(T, tid)
    IN  IF s = NoSlot THEN ZeroInfo
        ELSE [priority |-> T[s].priority,
              alive |-> IF T[s].state \in {THREAD_STATE_STOPPED,
                                           THREAD_STATE_RUNNING} THEN 1 ELSE 0,
              running |-> IF T[s].state = THREAD_STATE_RUNNING THEN 1 ELSE 0]

\* thread_info (thread.c:567-592).
thread_info(T, tid) ==
    LET s == _thread_find_by_id(T, tid)
    IN  IF s = NoSlot THEN ZeroInfo
        ELSE [priority |-> T[s].priority,
              alive |-> IF \/ T[s].state = THREAD_STATE_STOPPED
                           \/ T[s].state = THREAD_STATE_RUNNING
                           \/ T[s].state = THREAD_STATE_WAITING
                        THEN 1 ELSE 0,
              running |-> IF T[s].state = THREAD_STATE_RUNNING THEN 1 ELSE 0]

\* No thread_info call has been made yet.
NoInfo == [asked |-> FALSE, tid |-> 0, result |-> ZeroInfo]

(* ------------------------------- Init --------------------------------- *)

EmptyTable == [i \in Slots |-> NULL]

\* _thread_init (thread.c:286-298): the idle thread, id 1, Running.
IdleCreated == _thread_create(EmptyTable, 1, INT_MIN)

AfterThreadInit ==
    [IdleCreated.table EXCEPT ![IdleCreated.slot].context = 1,
                              ![IdleCreated.slot].state = THREAD_STATE_RUNNING]

\* _thread_register_main (thread.c:161-172): context 2 is the state passed in.
MainCreated == _thread_create(AfterThreadInit, IdleCreated.counter, 0)

AfterRegisterMain ==
    [MainCreated.table EXCEPT ![MainCreated.slot].context = 2,
                              ![MainCreated.slot].state = THREAD_STATE_RUNNING,
                              ![MainCreated.slot].main_thread = 1]

Init ==
    /\ threads = AfterRegisterMain
    /\ thread_counter = MainCreated.counter
    /\ current = 2
    /\ cpu = Cont(2, "run", 0)
    /\ frames = [c \in Ctxs |-> IF c = 1 THEN EntryFrame(1) ELSE Dead]
    /\ ret = 0
    /\ fault = FALSE
    /\ freedAt = [i \in Ctxs |-> 0]
    /\ assigned = <<1, IdleCreated.counter>>
    /\ live_ids = {1, 2}
    /\ NoCounters
    /\ info = NoInfo
    /\ NoHelpers
    /\ NoSemaphores
    /\ NoMessages

(* ----------------------- resuming after a handler --------------------- *)

\* The handler installs the context _thread_schedule returns: the registers
\* of the interrupted code are saved in its frame and those of the chosen
\* context restored.  Resuming a null context is undefined: the program stops.
\* T is the table the scheduler sees, c the registers of the interrupted code.
Resume(T, c, request) ==
    LET next == _thread_schedule(T, current, request)
    IN  /\ current' = next
        /\ fault' = (next = 0)
        /\ IF next = 0 \/ next = current
           THEN cpu' = c /\ frames' = frames
           ELSE /\ cpu' = frames[next]
                /\ frames' = [frames EXCEPT ![current] = c, ![next] = Dead]

\* Code of a thread function or of main, between two calls.  _idle_thread
\* (self = 1) does nothing but call thread_yield.
UserCode == ~fault /\ cpu.pc = "run" /\ cpu.self # 1

(* --------------------------- _syscall_timer --------------------------- *)

\* int schedule = THREAD_SCHEDULE_CURRENT (thread.c:336).
TimerRequest == THREAD_SCHEDULE_CURRENT

Timer ==
    /\ ~fault
    /\ Resume(threads, cpu, TimerRequest)
    /\ UNCHANGED <<threads, thread_counter, ret, freedAt, assigned, live_ids>>
    /\ UNCHANGED <<cvars, xvars>>

(* --------------------------- _syscall_trapa --------------------------- *)

\* Mutant: a trap number the switch does not know asks for any thread.
TrapRequest_DefaultAny(which) ==
    CASE which = 3 -> THREAD_SCHEDULE_OTHER
      [] which \in {0, 1, 2, 7} -> THREAD_SCHEDULE_CURRENT
      [] OTHER -> THREAD_SCHEDULE_ANY

\* The scheduling request each case of the switch leaves in `schedule`.
TrapRequest(which) ==
    CASE which = 3 -> THREAD_SCHEDULE_OTHER
      [] which \in {4, 5, 6} -> THREAD_SCHEDULE_ANY
      [] OTHER -> THREAD_SCHEDULE_CURRENT

\* Mutant: thread_start and thread_stop do not look at the state.
TrapTable_NoStateTest(T, which, a4, a5) ==
    LET s == _thread_find_by_id(T, a4)
    IN  CASE which = 4 /\ s # NoSlot ->
                [T EXCEPT ![s].state = THREAD_STATE_RUNNING]
          [] which = 5 /\ s # NoSlot ->
                [T EXCEPT ![s].state = THREAD_STATE_STOPPED]
          [] which = 6 /\ s # NoSlot ->
                [T EXCEPT ![s].priority = a5]
          [] OTHER -> T

\* The table after the case's effect; a4 and a5 are gp_regs[4] and gp_regs[5].
TrapTable(T, which, a4, a5) ==
    LET s == _thread_find_by_id(T, a4)
    IN  CASE which = 4 /\ s # NoSlot /\ T[s].state = THREAD_STATE_STOPPED ->
                [T EXCEPT ![s].state = THREAD_STATE_RUNNING]
          [] which = 5 /\ s # NoSlot /\ T[s].state = THREAD_STATE_RUNNING ->
                [T EXCEPT ![s].state = THREAD_STATE_STOPPED]
          [] which = 6 /\ s # NoSlot ->
                [T EXCEPT ![s].priority = a5]
          [] OTHER -> T

\* gp_regs[0] of the caller after the case (r0 its value before; the model
\* takes 0 for it, the callers of the other traps reading no result).
TrapReturn(T, which, state, r0) ==
    LET s == _thread_find_by_context(T, state)
    IN  IF which = 7 THEN (IF s # NoSlot THEN T[s].id ELSE 0) ELSE r0

_syscall_trapa(which, a4, a5) ==
    /\ ~fault
    /\ cpu.pc = "run"
    /\ cpu.self = 1 => which = 3
    /\ which \in {0, 1} => OpsDone < MaxOps
    /\ threads' = TrapTable(threads, which, a4, a5)
    /\ counter_mem' = TrapCounters(global_counters, counter_mem, which, a4)
    /\ counter_ops' = TrapOps(global_counters, counter_ops, which, a4, cpu.self)
    /\ counter_ret' = IF which = 2
                      THEN CounterValue(global_counters, counter_mem, a4)
                      ELSE Zero32
    /\ ret' = TrapReturn(threads, which, current, 0)
    /\ Resume(threads', cpu, TrapRequest(which))
    /\ UNCHANGED <<thread_counter, freedAt, assigned, live_ids>>
    /\ UNCHANGED <<global_counters, counter_init>>
    /\ UNCHANGED xvars

\* thread_yield and thread_id take no argument, thread_start and thread_stop
\* an id, thread_priority an id and a priority.
Trap ==
    \/ \E which \in {3, 7} : _syscall_trapa(which, 0, 0)
    \/ \E which \in {4, 5}, a4 \in Tids : _syscall_trapa(which, a4, 0)
    \/ \E a4 \in Tids, a5 \in PrioInputs : _syscall_trapa(6, a4, a5)

(* ----------------------------- thread_create -------------------------- *)

\* thread_create up to the return of _thread_create (thread.c:519).  With the
\* table full _thread_create returns null and thread_create goes on to write
\* thread->stack and to read thread->id through it: undefined behaviour, which
\* either stops the program or hands back whatever lies at that address.
thread_create ==
    /\ UserCode
    /\ LET r == _thread_create(threads, thread_counter, 0)
       IN  IF r.slot = NoSlot
           THEN /\ \/ fault' = TRUE /\ ret' = ret
                   \/ fault' = FALSE /\ ret' \in Garbage
                /\ UNCHANGED <<threads, thread_counter, current, cpu, frames,
                               freedAt, assigned, live_ids>>
           ELSE /\ thread_counter <= MaxId
                /\ threads' = r.table
                /\ thread_counter' = r.counter
                /\ cpu' = Cont(cpu.self, "creating", r.table[r.slot].id)
                /\ assigned' = Append(assigned, r.table[r.slot].id)
                /\ live_ids' = live_ids \cup {r.table[r.slot].id}
                /\ ret' = 0
                /\ UNCHANGED <<current, frames, fault, freedAt>>
    /\ UNCHANGED <<cvars, xvars>>

\* The freed context the processor still executes on (its thread destroyed
\* itself): the only freed context whose reuse by malloc can be seen.
DanglingCurrent ==
    IF _thread_find_by_context(threads, current) = NoSlot /\ current # 2
    THEN {current} ELSE {}

\* The descriptors a pointer to the destroyed descriptor `id` may now point at:
\* those allocated since it was freed.
Reallocated(id) ==
    {i \in Slots : threads[i] # NULL /\ freedAt[id] # 0
                   /\ threads[i].id >= freedAt[id]}

\* What a pointer to the descriptor `id` points at: the descriptor while it is
\* in the table; once destroyed, freed memory (NoSlot) or a descriptor
\* allocated there since.
PointsAt(id) ==
    LET s == _thread_find_by_id(threads, id)
    IN  IF s # NoSlot THEN {s} ELSE {NoSlot} \cup Reallocated(id)

\* The rest of thread_create (thread.c:522-532): the stack, the context, the
\* id read back through `thread`.  If the descriptor was destroyed meanwhile
\* the writes land in freed memory, or in the descriptor that now lies there.
thread_create_finish ==
    /\ ~fault
    /\ cpu.pc = "creating"
    /\ \E c \in {cpu.creating} \cup DanglingCurrent :
      \E a \in PointsAt(cpu.creating) :
        IF a = NoSlot
        THEN /\ UNCHANGED <<threads, frames>>
             /\ ret' = cpu.creating
        ELSE /\ threads' = [threads EXCEPT ![a].context = c]
             /\ ret' = threads[a].id
             /\ frames' = IF c = current THEN frames
                          ELSE [frames EXCEPT ![c] = EntryFrame(threads[a].id)]
    /\ cpu' = Cont(cpu.self, "run", 0)
    /\ UNCHANGED <<thread_counter, current, fault, freedAt, assigned, live_ids>>
    /\ UNCHANGED <<cvars, xvars>>

(* ----------------------------- thread_destroy ------------------------- *)

\* _thread_destroy frees the context unless main_thread is set; the frame of
\* a freed context is never resumed again.
FreeFrame(d) ==
    IF d.main_thread = 0 /\ d.context # 0 /\ d.context # current
    THEN [frames EXCEPT ![d.context] = Dead]
    ELSE frames

thread_destroy(tid) ==
    /\ UserCode
    /\ LET s == _thread_find_by_id(threads, tid)
       IN  IF s # NoSlot
           THEN /\ threads' = [threads EXCEPT ![s] = NULL]
                /\ frames' = FreeFrame(threads[s])
                /\ freedAt' = [freedAt EXCEPT ![tid] = thread_counter]
           ELSE UNCHANGED <<threads, frames, freedAt>>
    /\ live_ids' = live_ids \ {tid}
    /\ ret' = 0
    /\ UNCHANGED <<thread_counter, current, cpu, fault, assigned>>
    /\ UNCHANGED <<cvars, xvars>>

(* ------------------------------ _thread_run --------------------------- *)

\* The thread function returns: _thread_run sets ctx->thread->state to
\* FINISHED and yields (thread.c:503-510).  If the descriptor is gone (the
\* thread destroyed itself) the write lands in freed memory, or in the
\* descriptor that now lies there.
thread_function_return ==
    /\ UserCode
    /\ cpu.self # 2
    /\ \E a \in PointsAt(cpu.self) :
          threads' = IF a = NoSlot THEN threads
                     ELSE [threads EXCEPT ![a].state = THREAD_STATE_FINISHED]
    /\ Resume(threads', Cont(cpu.self, "done", 0), THREAD_SCHEDULE_OTHER)
    /\ ret' = 0
    /\ UNCHANGED <<thread_counter, freedAt, assigned, live_ids>>
    /\ UNCHANGED <<cvars, xvars>>

\* A finished thread resumed after its last thread_yield: _thread_run returns
\* to a caller that does not exist.
thread_run_return ==
    /\ ~fault
    /\ cpu.pc = "done"
    /\ fault' = TRUE
    /\ UNCHANGED <<threads, thread_counter, current, cpu, frames, ret,
                   freedAt, assigned, live_ids>>
    /\ UNCHANGED <<cvars, xvars>>

(* -------------------------------- Next -------------------------------- *)

Next ==
    \/ Timer
    \/ Trap
    \/ thread_create
    \/ thread_create_finish
    \/ \E tid \in Tids : thread_destroy(tid)
    \/ thread_function_return
    \/ thread_run_return

Spec == Init /\ [][Next]_vars

(* ----------------------- traps the switch ignores -------------------- *)

\* Trap numbers no case of the switch handles (thread.c:345-431): code may
\* execute trapa with any number.
UnknownTraps == {8, 255}

TrapInit == Init

TrapNext ==
    \/ Next
    \/ \E which \in UnknownTraps : _syscall_trapa(which, 0, 0)

TrapSpec == TrapInit /\ [][TrapNext]_vars

(* ------------------------- thread_info, called ------------------------ *)

\* thread_info is a function of the table and of the id alone.  It is applied
\* to tables holding the idle thread, main, and at most one more descriptor in
\* any of the five states thread.c defines (thread_info tests for Waiting,
\* which no function of thread.c sets).
InfoStates ==
    {THREAD_STATE_STOPPED, THREAD_STATE_RUNNING, THREAD_STATE_FINISHED,
     THREAD_STATE_ZOMBIE, THREAD_STATE_WAITING}

InfoTables ==
    {[AfterRegisterMain EXCEPT ![1].state = ms, ![1].priority = mp, ![2] = d] :
        ms \in {THREAD_STATE_STOPPED, THREAD_STATE_RUNNING},
        mp \in {0, 5},
        d \in {NULL} \cup
              {[NewThread(id, p) EXCEPT !.state = st, !.context = id] :
                  id \in 3 .. MaxId, p \in {0, 5}, st \in InfoStates}}

InfoInit ==
    /\ threads \in InfoTables
    /\ thread_counter = MaxId + 1
    /\ current = 2
    /\ cpu = Cont(2, "run", 0)
    /\ frames = [c \in Ctxs |->
                    IF c # 2 /\ _thread_find_by_context(threads, c) # NoSlot
                    THEN EntryFrame(c) ELSE Dead]
    /\ ret = 0
    /\ fault = FALSE
    /\ freedAt = [i \in Ctxs |-> 0]
    /\ assigned = <<1, 2>>
    /\ live_ids = {1, 2}
    /\ NoCounters
    /\ info = NoInfo
    /\ NoHelpers
    /\ NoSemaphores
    /\ NoMessages

thread_info_call(tid) ==
    /\ UserCode
    /\ info' = [asked |-> TRUE, tid |-> tid, result |-> thread_info(threads, tid)]
    /\ UNCHANGED <<tvars, cvars, mvars, hvars, svars>>

InfoNext == \E tid \in Tids : thread_info_call(tid)

InfoSpec == InfoInit /\ [][InfoNext]_vars

(* ------------------- the global counter operations -------------------- *)

\* global_counter_init (thread.c:436-454): the first empty slot gets a fresh
\* uint32_t holding initial_value; with the table full null is returned.
\* malloc returns any address not in use, a freed one included.
global_counter_init(v) ==
    /\ UserCode
    /\ LET s == FirstEmptyCounterSlot(global_counters)
       IN  IF s = NoSlot
           THEN /\ ret' = 0
                /\ UNCHANGED <<global_counters, counter_mem, counter_init,
                               counter_ops>>
           ELSE \E h \in Handles \ {global_counters[i] : i \in CSlots} :
                  /\ global_counters' = [global_counters EXCEPT ![s] = h]
                  /\ counter_mem' = [counter_mem EXCEPT ![h] = v]
                  /\ counter_init' = [counter_init EXCEPT ![h] = v]
                  /\ counter_ops' = [counter_ops EXCEPT ![h] = <<>>]
                  /\ ret' = h
    /\ counter_ret' = Zero32
    /\ UNCHANGED <<threads, thread_counter, current, cpu, frames, fault,
                   freedAt, assigned, live_ids>>
    /\ UNCHANGED xvars

\* global_counter_free (thread.c:475-490): the slot holding the pointer is
\* cleared and the memory freed; any other pointer is ignored.
global_counter_free(counter) ==
    /\ UserCode
    /\ IF _global_counter_find(global_counters, counter) # 0
       THEN /\ global_counters' =
                  [i \in CSlots |-> IF global_counters[i] = counter THEN 0
                                    ELSE global_counters[i]]
            /\ counter_mem' = [counter_mem EXCEPT ![counter] = Zero32]
            /\ counter_init' = [counter_init EXCEPT ![counter] = Zero32]
            /\ counter_ops' = [counter_ops EXCEPT ![counter] = <<>>]
       ELSE UNCHANGED <<global_counters, counter_mem, counter_init,
                        counter_ops>>
    /\ ret' = 0
    /\ counter_ret' = Zero32
    /\ UNCHANGED <<threads, thread_counter, current, cpu, frames, fault,
                   freedAt, assigned, live_ids>>
    /\ UNCHANGED xvars

\* The table once main has created thread 3 and called thread_start(3).
ThreadStarted ==
    LET c == _thread_create(AfterRegisterMain, MainCreated.counter, 0)
    IN  [table |-> TrapTable([c.table EXCEPT ![c.slot].context = 3], 4, 3, 0),
         counter |-> c.counter]

\* The counters are exercised by main and one started thread: the state after
\* thread_create and thread_start(3), whose rescheduling runs thread 3.
CounterInit ==
    /\ threads = ThreadStarted.table
    /\ thread_counter = ThreadStarted.counter
    /\ current = 3
    /\ cpu = EntryFrame(3)
    /\ frames = [c \in Ctxs |-> CASE c = 1 -> EntryFrame(1)
                                  [] c = 2 -> Cont(2, "run", 0)
                                  [] OTHER -> Dead]
    /\ ret = 0
    /\ fault = FALSE
    /\ freedAt = [i \in Ctxs |-> 0]
    /\ assigned = <<1, 2, 3>>
    /\ live_ids = {1, 2, 3}
    /\ NoCounters
    /\ info = NoInfo
    /\ NoHelpers
    /\ NoSemaphores
    /\ NoMessages

CounterNext ==
    \/ Timer
    \/ _syscall_trapa(3, 0, 0)
    \/ \E which \in {0, 1, 2}, h \in HandleInputs : _syscall_trapa(which, h, 0)
    \/ \E v \in InitValues : global_counter_init(v)
    \/ \E h \in HandleInputs : global_counter_free(h)

CounterSpec == CounterInit /\ [][CounterNext]_vars

(* ----------------------------- message_send --------------------------- *)

\* The message types user code sends.
TypeInputs == {1, 2}

\* A payload of length L whose bytes are b, b + 1, ...: every byte tells the
\* place it belongs to and the payload it comes from.
Pattern(b, L) == [k \in 1 .. L |-> b + k - 1]

\* The (type, data, length) user code passes to message_send: for each type
\* payloads of every length up to MaxLen, the bytes of type 1 starting at 1
\* and those of type 2 at 11, and a length beyond MAX_MESSAGE_LENGTH.
SendInputs ==
    {<<t, Pattern(10 * t - 9, L), L>> : t \in TypeInputs, L \in 0 .. MaxLen}
        \cup {<<1, (<<>>), MAX_MESSAGE_LENGTH + 1>>}

\* Mutant: the loop runs only while loc < length, so a message of length 0
\* is never handed to the transport.
RECURSIVE SendLoop_NoEmpty(_, _, _, _, _)
SendLoop_NoEmpty(type, seq, data, length, loc) ==
    IF loc >= length THEN <<>>
    ELSE LET packet_len == IF length - loc > MAX_MESSAGE_DATA_LENGTH
                           THEN MAX_MESSAGE_DATA_LENGTH ELSE length - loc
             pkt == Packet(packet_len + MESSAGE_HEADER_LENGTH, type % Half,
                           seq, length % Half, loc % Half,
                           SubSeq(data, loc + 1, loc + packet_len))
         IN  <<pkt>> \o SendLoop_NoEmpty(type, seq, data, length,
                                         loc + MAX_MESSAGE_DATA_LENGTH)

\* The packets the loop of message_send builds from offset loc on
\* (message.c:29-63), in the order it hands them to packetlib_send.
RECURSIVE SendLoop(_, _, _, _, _)
SendLoop(type, seq, data, length, loc) ==
    LET packet_len == IF length - loc > MAX_MESSAGE_DATA_LENGTH
                      THEN MAX_MESSAGE_DATA_LENGTH ELSE length - loc
        pkt == Packet(packet_len + MESSAGE_HEADER_LENGTH, type % Half, seq,
                      length % Half, loc % Half,
                      SubSeq(data, loc + 1, loc + packet_len))
        next == loc + MAX_MESSAGE_DATA_LENGTH
    IN  <<pkt>> \o (IF next = 0 \/ next < length
                    THEN SendLoop(type, seq, data, length, next) ELSE <<>>)

\* Mutant: the sequence counter may become 0.
NextSequence_ThroughZero(seq) == (seq + 1) % Half

\* sequence++, skipping 0 (message.c:67-72).
NextSequence(seq) == IF (seq + 1) % Half = 0 THEN 1 ELSE (seq + 1) % Half

\* The loopback transport: packetlib_send stores the packet in a free slot of
\* the receive window and fails when there is none.  The windows after the
\* first k packets of frags have been stored.
Stored(W, frags, k) ==
    LET free == {i \in WSlots : W[i] = NoPacket}
        places == {f \in [1 .. k -> free] :
                      \A a, b \in 1 .. k : a # b => f[a] # f[b]}
    IN  {[i \in WSlots |-> IF \E j \in 1 .. k : f[j] = i
                           THEN frags[CHOOSE j \in 1 .. k : f[j] = i]
                           ELSE W[i]] : f \in places}

\* Mutant: a message that is too long still uses up a sequence number.
message_send_RejectAdvances(type, data, length, failAt) ==
    /\ ~msg_fault
    /\ Len(sent_msgs) < MaxSends
    /\ IF length > MAX_MESSAGE_LENGTH
       THEN /\ send_ret' = -3
            /\ sequence' = NextSequence(sequence)
            /\ UNCHANGED window
       ELSE LET frags == SendLoop(type, sequence, data, length, 0)
                free == Cardinality({i \in WSlots : window[i] = NoPacket})
                upto == IF failAt = 0 THEN Len(frags) ELSE failAt - 1
                k == MinOf({Len(frags), free, upto})
            IN  /\ window' \in Stored(window, frags, k)
                /\ IF k = Len(frags)
                   THEN /\ send_ret' = 0
                        /\ sequence' = NextSequence(sequence)
                   ELSE /\ send_ret' = -4
                        /\ UNCHANGED sequence
    /\ sent_msgs' = Append(sent_msgs,
           [type |-> type, seq |-> sequence, data |-> data, ret |-> send_ret',
            pending |-> Cardinality({i \in WSlots : window[i] # NoPacket})])
    /\ sent_ok' = IF send_ret' = 0 THEN sent_ok + 1 ELSE sent_ok
    /\ UNCHANGED <<recv, msg_fault>>
    /\ UNCHANGED <<tvars, cvars, ivars, hvars, svars>>

\* Mutant: a failed send takes back the fragments it had handed over.
message_send_Unwinds(type, data, length, failAt) ==
    /\ ~msg_fault
    /\ Len(sent_msgs) < MaxSends
    /\ IF length > MAX_MESSAGE_LENGTH
       THEN /\ send_ret' = -3
            /\ UNCHANGED <<window, sequence>>
       ELSE LET frags == SendLoop(type, sequence, data, length, 0)
                free == Cardinality({i \in WSlots : window[i] = NoPacket})
                upto == IF failAt = 0 THEN Len(frags) ELSE failAt - 1
                k == MinOf({Len(frags), free, upto})
            IN  /\ window' \in Stored(window, frags,
                                    IF k = Len(frags) THEN k ELSE 0)
                /\ IF k = Len(frags)
                   THEN /\ send_ret' = 0
                        /\ sequence' = NextSequence(sequence)
                   ELSE /\ send_ret' = -4
                        /\ UNCHANGED sequence
    /\ sent_msgs' = Append(sent_msgs,
           [type |-> type, seq |-> sequence, data |-> data, ret |-> send_ret',
            pending |-> Cardinality({i \in WSlots : window[i] # NoPacket})])
    /\ sent_ok' = IF send_ret' = 0 THEN sent_ok + 1 ELSE sent_ok
    /\ UNCHANGED <<recv, msg_fault>>
    /\ UNCHANGED <<tvars, cvars, ivars, hvars, svars>>

\* Mutant: a send that fails still uses up its sequence number.
message_send_FailAdvances(type, data, length, failAt) ==
    /\ ~msg_fault
    /\ Len(sent_msgs) < MaxSends
    /\ IF length > MAX_MESSAGE_LENGTH
       THEN /\ send_ret' = -3
            /\ UNCHANGED <<window, sequence>>
       ELSE LET frags == SendLoop(type, sequence, data, length, 0)
                free == Cardinality({i \in WSlots : window[i] = NoPacket})
                upto == IF failAt = 0 THEN Len(frags) ELSE failAt - 1
                k == MinOf({Len(frags), free, upto})
            IN  /\ window' \in Stored(window, frags,
                                    IF k = Len(frags) THEN k ELSE 0)
                /\ IF k = Len(frags)
                   THEN /\ send_ret' = 0
                        /\ sequence' = NextSequence(sequence)
                   ELSE /\ send_ret' = -4
                        /\ sequence' = NextSequence(sequence)
    /\ sent_msgs' = Append(sent_msgs,
           [type |-> type, seq |-> sequence, data |-> data, ret |-> send_ret',
            pending |-> Cardinality({i \in WSlots : window[i] # NoPacket})])
    /\ sent_ok' = IF send_ret' = 0 THEN sent_ok + 1 ELSE sent_ok
    /\ UNCHANGED <<recv, msg_fault>>
    /\ UNCHANGED <<tvars, cvars, ivars, hvars, svars>>

\* message_send(type, data, length).  failAt is the call of packetlib_send
\* that fails for a reason of the transport's own (0: none).
message_send(type, data, length, failAt) ==
    /\ ~msg_fault
    /\ Len(sent_msgs) < MaxSends
    /\ IF length > MAX_MESSAGE_LENGTH
       THEN /\ send_ret' = -3
            /\ UNCHANGED <<window, sequence>>
       ELSE LET frags == SendLoop(type, sequence, data, length, 0)
                free == Cardinality({i \in WSlots : window[i] = NoPacket})
                upto == IF failAt = 0 THEN Len(frags) ELSE failAt - 1
                k == MinOf({Len(frags), free, upto})
            IN  /\ window' \in Stored(window, frags, k)
                /\ IF k = Len(frags)
                   THEN /\ send_ret' = 0
                        /\ sequence' = NextSequence(sequence)
                   ELSE /\ send_ret' = -4
                        /\ UNCHANGED sequence
    /\ sent_msgs' = Append(sent_msgs,
           [type |-> type, seq |-> sequence, data |-> data, ret |-> send_ret',
            pending |-> Cardinality({i \in WSlots : window[i] # NoPacket})])
    /\ sent_ok' = IF send_ret' = 0 THEN sent_ok + 1 ELSE sent_ok
    /\ UNCHANGED <<recv, msg_fault>>
    /\ UNCHANGED <<tvars, cvars, ivars, hvars, svars>>

(* ----------------------------- message_recv --------------------------- *)

\* num_packets_needed for a message length (message.c:122, 168).
Needed(msg_length) ==
    (msg_length + (MAX_MESSAGE_DATA_LENGTH - 1)) \div MAX_MESSAGE_DATA_LENGTH

\* What a write outside its allocation does is undefined.  The outcomes the
\* model draws from: the program stops; the write lands where nobody looks;
\* the write of the bitmap's 1 lands in byte `bit` of the bitmap of the
\* tracked sequence number `index`.
Strays ==
    {[kind |-> "fault", index |-> 0, bit |-> 0],
     [kind |-> "lost", index |-> 0, bit |-> 0]}
        \cup {[kind |-> "hit", index |-> j, bit |-> b] :
                 j \in 1 .. 2, b \in 0 .. (Needed(MaxLen) - 1)}

\* The bitmaps after a write of 1 outside the allocation it was meant for.
StrayWrite(st, stray) ==
    IF /\ stray.kind = "hit"
       /\ stray.index <= Len(st.seqs)
       /\ stray.bit < st.alloc[stray.index]
    THEN [st EXCEPT !.ub = TRUE,
                    !.bits[stray.index] = @ \cup {stray.bit}]
    ELSE [st EXCEPT !.ub = TRUE]

\* The scan before any slot is looked at: the memset of the three tables.
\* seqs, lens are seen_packet_sequences and seen_packet_lengths up to the
\* first 0; bits and alloc the bytes set in each seen_positions bitmap and
\* its allocated size (0: the null pointer).
ScanStart(W) ==
    [win |-> W, seqs |-> <<>>, lens |-> <<>>, bits |-> <<>>, alloc |-> <<>>,
     ub |-> FALSE]

\* Mutant: the scan skips bogus packets and leaves them in the window.
ScanSlot_KeepsBogus(st, pkt, stray) ==
    LET p == st.win[pkt]
    IN  IF p = NoPacket \/ p.len < MESSAGE_HEADER_LENGTH \/ p.seq = 0 THEN st
        ELSE LET needed == Needed(p.total)
                 found == {k \in 1 .. Len(st.seqs) : st.seqs[k] = p.seq}
                 index == IF found # {} THEN MinOf(found) ELSE Len(st.seqs) + 1
                 st1 == IF found # {} THEN st
                        ELSE [st EXCEPT !.seqs = Append(@, p.seq),
                                        !.lens = Append(@, p.total),
                                        !.alloc = Append(@, needed),
                                        !.bits = Append(@, {})]
                 at == p.loc \div MAX_MESSAGE_DATA_LENGTH
             IN  IF needed = 0 THEN st1
                 ELSE IF at < st1.alloc[index]
                 THEN [st1 EXCEPT !.bits[index] = @ \cup {at}]
                 ELSE StrayWrite(st1, stray)

\* One round of the first loop (message.c:90-156) on slot pkt.
ScanSlot(st, pkt, stray) ==
    LET p == st.win[pkt]
    IN  IF p = NoPacket THEN st
        ELSE IF p.len < MESSAGE_HEADER_LENGTH \/ p.seq = 0
        THEN [st EXCEPT !.win[pkt] = NoPacket]
        ELSE LET needed == Needed(p.total)
                 found == {k \in 1 .. Len(st.seqs) : st.seqs[k] = p.seq}
                 index == IF found # {} THEN MinOf(found) ELSE Len(st.seqs) + 1
                 st1 == IF found # {} THEN st
                        ELSE [st EXCEPT !.seqs = Append(@, p.seq),
                                        !.lens = Append(@, p.total),
                                        !.alloc = Append(@, needed),
                                        !.bits = Append(@, {})]
                 at == p.loc \div MAX_MESSAGE_DATA_LENGTH
             IN  IF needed = 0 THEN st1
                 ELSE IF at < st1.alloc[index]
                 THEN [st1 EXCEPT !.bits[index] = @ \cup {at}]
                 ELSE StrayWrite(st1, stray)

RECURSIVE Scan(_, _, _)
Scan(st, pkt, stray) ==
    IF pkt = MAX_OUTSTANDING_PACKETS THEN st
    ELSE Scan(ScanSlot(st, pkt, stray), pkt + 1, stray)

\* Mutant: a sequence counts as received once its first fragment is there.
Ready_FirstOnly(st, index) == 0 \in st.bits[index] \/ st.lens[index] = 0

\* ready (message.c:168-179): every needed position is marked.
Ready(st, index) ==
    \A i \in 0 .. (Needed(st.lens[index]) - 1) : i \in st.bits[index]

\* Mutant: every fragment is copied to the start of the buffer.
CopyAt_Start(buf, location, data) ==
    [k \in 1 .. Len(buf) |-> IF k <= Len(data) THEN data[k] ELSE buf[k]]

\* memcpy(reassembled_data + location, data, n): the bytes that fall inside
\* the buffer.
CopyAt(buf, location, data) ==
    [k \in 1 .. Len(buf) |->
        IF k > location /\ k <= location + Len(data)
        THEN data[k - location] ELSE buf[k]]

\* Mutant: the fragments of every sequence are taken for the delivered one.
TakeSlot_AnySequence(acc, pkt, seq, total) ==
    LET p == acc.win[pkt]
    IN  IF p = NoPacket THEN acc
        ELSE IF p.len < MESSAGE_HEADER_LENGTH THEN acc
        ELSE [win |-> [acc.win EXCEPT ![pkt] = NoPacket],
              type |-> p.type,
              data |-> IF total > 0 THEN CopyAt(acc.data, p.loc, p.data)
                       ELSE acc.data,
              ub |-> acc.ub \/ (total > 0 /\ p.loc + Len(p.data) > total)]

\* Mutant: the fragments are laid one after the other in slot order.
TakeSlot_InSlotOrder(acc, pkt, seq, total) ==
    LET p == acc.win[pkt]
        filled == Cardinality({k \in 1 .. Len(acc.data) : acc.data[k] # Unwritten})
    IN  IF p = NoPacket THEN acc
        ELSE IF p.len < MESSAGE_HEADER_LENGTH \/ p.seq # seq THEN acc
        ELSE [win |-> [acc.win EXCEPT ![pkt] = NoPacket],
              type |-> p.type,
              data |-> IF total > 0 THEN CopyAt(acc.data, filled, p.data)
                       ELSE acc.data,
              ub |-> acc.ub]

\* One round of the inner loop (message.c:191-230) on slot pkt, for the
\* sequence seq of length total.
TakeSlot(acc, pkt, seq, total) ==
    LET p == acc.win[pkt]
    IN  IF p = NoPacket THEN acc
        ELSE IF p.len < MESSAGE_HEADER_LENGTH \/ p.seq # seq THEN acc
        ELSE [win |-> [acc.win EXCEPT ![pkt] = NoPacket],
              type |-> p.type,
              data |-> IF total > 0 THEN CopyAt(acc.data, p.loc, p.data)
                       ELSE acc.data,
              ub |-> acc.ub \/ (total > 0 /\ p.loc + Len(p.data) > total)]

RECURSIVE Take(_, _, _, _)
Take(acc, pkt, seq, total) ==
    IF pkt = MAX_OUTSTANDING_PACKETS THEN acc
    ELSE Take(TakeSlot(acc, pkt, seq, total), pkt + 1, seq, total)

\* Mutant: a call that finds nothing ready clears the caller's variables.
message_recv_on_NotReadyClears(W, out, stray) ==
    LET st == Scan(ScanStart(W), 0, stray)
        ready == {k \in 1 .. Len(st.seqs) : Ready(st, k)}
    IN  IF ready = {}
        THEN [win |-> st.win, ub |-> st.ub,
              out |-> [ret |-> -5, type |-> 0, data |-> <<>>, length |-> 0]]
        ELSE LET index == MinOf(ready)
                 total == st.lens[index]
                 got == Take([win |-> st.win, type |-> out.type,
                              data |-> [k \in 1 .. total |-> Unwritten],
                              ub |-> st.ub],
                             0, st.seqs[index], total)
             IN  [win |-> got.win, ub |-> got.ub,
                  out |-> [ret |-> 0, type |-> got.type, data |-> got.data,
                           length |-> total]]

\* message_recv on window W, `out` being the caller's *type, *data, *length
\* before the call: the window and those variables afterwards, the result,
\* and whether the call left defined behaviour.
message_recv_on(W, out, stray) ==
    LET st == Scan(ScanStart(W), 0, stray)
        ready == {k \in 1 .. Len(st.seqs) : Ready(st, k)}
    IN  IF ready = {}
        THEN [win |-> st.win, ub |-> st.ub,
              out |-> [out EXCEPT !.ret = -5]]
        ELSE LET index == MinOf(ready)
                 total == st.lens[index]
                 got == Take([win |-> st.win, type |-> out.type,
                              data |-> [k \in 1 .. total |-> Unwritten],
                              ub |-> st.ub],
                             0, st.seqs[index], total)
             IN  [win |-> got.win, ub |-> got.ub,
                  out |-> [ret |-> 0, type |-> got.type, data |-> got.data,
                           length |-> total]]

message_recv(stray) ==
    /\ ~msg_fault
    /\ \E r \in {message_recv_on(window, recv, stray)} :
           /\ msg_fault' = (r.ub /\ stray.kind = "fault")
           /\ window' = r.win
           /\ recv' = r.out
    /\ UNCHANGED <<sequence, send_ret, sent_msgs, sent_ok>>
    /\ UNCHANGED <<tvars, cvars, ivars, hvars, svars>>

(* ------------------------ the codec over loopback --------------------- *)

\* packetlib_send calls the transport may fail by itself (0: none).
FailInputs == 0 .. 2

MessageInit == Init

MessageNext ==
    \/ \E in \in SendInputs, failAt \in FailInputs :
          message_send(in[1], in[2], in[3], failAt)
    \/ \E stray \in Strays : message_recv(stray)

MessageSpec == MessageInit /\ [][MessageNext]_vars

(* ----------------------- the sequence counter ------------------------- *)

\* How many message_send calls have returned 0 when the run is taken up:
\* none, and the counts that leave the counter two and one short of its wrap.
SentBefore == {0, Half - 3, Half - 2}

\* The values of the static sequence: 1 .. 2^16 - 1, round and round.
SequenceAfter(n) == (n % (Half - 1)) + 1

\* The program after n message_send calls have returned 0 and every message
\* has been received.
SequenceInit ==
    /\ threads = AfterRegisterMain
    /\ thread_counter = MainCreated.counter
    /\ current = 2
    /\ cpu = Cont(2, "run", 0)
    /\ frames = [c \in Ctxs |-> IF c = 1 THEN EntryFrame(1) ELSE Dead]
    /\ ret = 0
    /\ fault = FALSE
    /\ freedAt = [i \in Ctxs |-> 0]
    /\ assigned = <<1, IdleCreated.counter>>
    /\ live_ids = {1, 2}
    /\ NoCounters
    /\ info = NoInfo
    /\ NoHelpers
    /\ NoSemaphores
    /\ window = [i \in WSlots |-> NoPacket]
    /\ sent_ok \in SentBefore
    /\ sequence = SequenceAfter(sent_ok)
    /\ send_ret = 0
    /\ sent_msgs = <<>>
    /\ recv = NoRecv
    /\ msg_fault = FALSE

SequenceNext ==
    \/ \E in \in SendInputs, failAt \in FailInputs :
          message_send(in[1], in[2], in[3], failAt)
    \/ \E stray \in Strays : message_recv(stray)

SequenceSpec == SequenceInit /\ [][SequenceNext]_vars

(* ------------------ the interrupt mask in the helpers ----------------- *)

\* The statements of a helper that matter to the interrupt mask, in program
\* order: "disable" is old_interrupts = irq_disable(), "restore" is
\* irq_restore(old_interrupts), "access" a read or write of a table slot or
\* of a descriptor, "call" the call of another helper.  found tells the
\* path: the loop found the slot it looked for (an empty one, or the one
\* holding the id or pointer), or it did not.
Stmt(op, callee, line) == [op |-> op, callee |-> callee, line |-> line]

HelperCode(fn, found) ==
    CASE fn = "_thread_create" ->
            <<Stmt("disable", "", 118), Stmt("access", "", 123)>>
            \o (IF found THEN <<Stmt("access", "", 126), Stmt("access", "", 133)>>
                ELSE <<>>)
            \o <<Stmt("restore", "", 138)>>
      [] fn = "_thread_destroy" ->
            <<Stmt("access", "", 145), Stmt("access", "", 158)>>
      [] fn = "_thread_register_main" ->
            <<Stmt("disable", "", 163), Stmt("call", "_thread_create", 165),
              Stmt("access", "", 166), Stmt("restore", "", 171)>>
      [] fn = "_thread_free" ->
            <<Stmt("disable", "", 302), Stmt("access", "", 306),
              Stmt("access", "", 315), Stmt("access", "", 324)>>
            \o (IF found THEN <<Stmt("call", "_thread_destroy", 326),
                                Stmt("access", "", 327)>>
                ELSE <<>>)
            \o <<Stmt("restore", "", 331)>>
      [] fn = "thread_destroy" ->
            <<Stmt("disable", "", 537), Stmt("access", "", 541)>>
            \o (IF found THEN <<Stmt("call", "_thread_destroy", 543),
                                Stmt("access", "", 544)>>
                ELSE <<>>)
            \o <<Stmt("restore", "", 549)>>
      [] fn = "thread_info" ->
            <<Stmt("disable", "", 572), Stmt("access", "", 573)>>
            \o (IF found THEN <<Stmt("access", "", 576)>> ELSE <<>>)
            \o <<Stmt("restore", "", 589)>>
      [] fn = "global_counter_init" ->
            <<Stmt("disable", "", 438), Stmt("access", "", 443)>>
            \o (IF found THEN <<Stmt("access", "", 447)>> ELSE <<>>)
            \o <<Stmt("restore", "", 452)>>
      [] fn = "global_counter_free" ->
            <<Stmt("disable", "", 477), Stmt("access", "", 481)>>
            \o (IF found THEN <<Stmt("access", "", 483)>> ELSE <<>>)
            \o <<Stmt("restore", "", 489)>>
      [] fn = "thread_create" ->
            <<Stmt("call", "_thread_create", 519), Stmt("access", "", 528),
              Stmt("access", "", 529), Stmt("access", "", 532)>>

\* The helpers user code calls.
UserHelpers ==
    {"_thread_create", "_thread_register_main", "_thread_free",
     "thread_destroy", "thread_info", "global_counter_init",
     "global_counter_free", "thread_create"}

\* old_interrupts before irq_disable has assigned it.
Unset == 2

\* The frame of a call of fn: pc counts the statements done, old is the
\* local old_interrupts, entry (history) the mask the call was entered with.
HelperFrame(fn, found) ==
    [fn |-> fn, found |-> found, pc |-> 0, old |-> Unset, entry |-> irq_mask]

Top == helpers[Len(helpers)]

\* The statement the innermost call is about to execute ("return" past the
\* last one).
NextStmt ==
    LET code == HelperCode(Top.fn, Top.found)
    IN  IF Top.pc < Len(code) THEN code[Top.pc + 1] ELSE Stmt("return", "", 0)

Advance == [helpers EXCEPT ![Len(helpers)].pc = @ + 1]

\* User code, with interrupts enabled or inside an irq_disable region of
\* its own, calls a helper.
helper_call(fn, found) ==
    /\ helpers = <<>>
    /\ helpers' = <<HelperFrame(fn, found)>>
    /\ UNCHANGED irq_mask
    /\ UNCHANGED <<tvars, cvars, ivars, mvars, svars>>

\* old_interrupts = irq_disable(): the mask is saved and interrupts go off.
irq_disable ==
    /\ helpers # <<>> /\ NextStmt.op = "disable"
    /\ helpers' = [Advance EXCEPT ![Len(helpers)].old = irq_mask]
    /\ irq_mask' = 1
    /\ UNCHANGED <<tvars, cvars, ivars, mvars, svars>>

\* irq_restore(old_interrupts).
irq_restore ==
    /\ helpers # <<>> /\ NextStmt.op = "restore"
    /\ irq_mask' = Top.old
    /\ helpers' = Advance
    /\ UNCHANGED <<tvars, cvars, ivars, mvars, svars>>

\* A read or write of a table slot or of a descriptor.
table_access ==
    /\ helpers # <<>> /\ NextStmt.op = "access"
    /\ helpers' = Advance
    /\ UNCHANGED irq_mask
    /\ UNCHANGED <<tvars, cvars, ivars, mvars, svars>>

\* The call of another helper, which finds its slot or does not.
helper_nested_call ==
    /\ helpers # <<>> /\ NextStmt.op = "call"
    /\ \E found \in BOOLEAN :
          helpers' = Append(Advance, HelperFrame(NextStmt.callee, found))
    /\ UNCHANGED irq_mask
    /\ UNCHANGED <<tvars, cvars, ivars, mvars, svars>>

helper_return ==
    /\ helpers # <<>> /\ NextStmt.op = "return"
    /\ helpers' = SubSeq(helpers, 1, Len(helpers) - 1)
    /\ UNCHANGED irq_mask
    /\ UNCHANGED <<tvars, cvars, ivars, mvars, svars>>

\* User code enters and leaves an irq_disable region of its own.
user_irq(mask) ==
    /\ helpers = <<>>
    /\ irq_mask' = mask
    /\ UNCHANGED helpers
    /\ UNCHANGED <<tvars, cvars, ivars, mvars, svars>>

HelperInit == Init

HelperNext ==
    \/ \E fn \in UserHelpers, found \in BOOLEAN : helper_call(fn, found)
    \/ irq_disable
    \/ irq_restore
    \/ table_access
    \/ helper_nested_call
    \/ helper_return
    \/ \E mask \in {0, 1} : user_irq(mask)

HelperSpec == HelperInit /\ [][HelperNext]_vars

(* ------------------- the codec on packets from outside ---------------- *)

\* A packet of n data bytes with header (type s, sequence s, total, loc); its
\* bytes are those message_send would send from offset loc of a type-s message.
Fragment(s, total, loc, n) ==
    Packet(MESSAGE_HEADER_LENGTH + n, s, s, total, loc,
           Pattern(10 * s - 9 + loc, n))

\* The packets the transport may receive from the other end: both fragments
\* of a two-fragment message of sequence 1, the first fragment of one of
\* sequence 2, a fragment that disagrees on the total length, one whose
\* offset is the total length, a packet with sequence 0 and one shorter than
\* a header.
Arrivals ==
    {Fragment(1, 2 * MAX_MESSAGE_DATA_LENGTH, 0, MAX_MESSAGE_DATA_LENGTH),
     Fragment(1, 2 * MAX_MESSAGE_DATA_LENGTH, MAX_MESSAGE_DATA_LENGTH,
              MAX_MESSAGE_DATA_LENGTH),
     Fragment(2, 2 * MAX_MESSAGE_DATA_LENGTH, 0, MAX_MESSAGE_DATA_LENGTH),
     Fragment(1, MAX_MESSAGE_DATA_LENGTH, 0, MAX_MESSAGE_DATA_LENGTH),
     Fragment(1, 2 * MAX_MESSAGE_DATA_LENGTH, 2 * MAX_MESSAGE_DATA_LENGTH,
              MAX_MESSAGE_DATA_LENGTH),
     Fragment(0, 2 * MAX_MESSAGE_DATA_LENGTH, 0, MAX_MESSAGE_DATA_LENGTH),
     Packet(MESSAGE_HEADER_LENGTH - 1, 0, 0, 0, 0, <<>>)}

\* The transport stores a received packet in a free slot of the window.
packet_arrives(p) ==
    /\ ~msg_fault
    /\ window' \in Stored(window, <<p>>, 1)
    /\ UNCHANGED <<sequence, send_ret, sent_msgs, sent_ok, recv, msg_fault>>
    /\ UNCHANGED <<tvars, cvars, ivars, hvars, svars>>

WindowInit == Init

WindowNext ==
    \/ \E p \in Arrivals : packet_arrives(p)
    \/ \E stray \in Strays : message_recv(stray)

WindowSpec == WindowInit /\ [][WindowNext]_vars

(* --------------------- several messages in the window ----------------- *)

\* Packets from the other end that let several sequences be complete at
\* once: two one-fragment messages of sequences 1 and 2, both fragments of
\* a two-fragment message of sequence 3, and a fragment of sequence 1 whose
\* offset is its total length.
OrderArrivals ==
    {Fragment(1, MAX_MESSAGE_DATA_LENGTH, 0, MAX_MESSAGE_DATA_LENGTH),
     Fragment(2, MAX_MESSAGE_DATA_LENGTH, 0, MAX_MESSAGE_DATA_LENGTH),
     Fragment(3, 2 * MAX_MESSAGE_DATA_LENGTH, 0, MAX_MESSAGE_DATA_LENGTH),
     Fragment(3, 2 * MAX_MESSAGE_DATA_LENGTH, MAX_MESSAGE_DATA_LENGTH,
              MAX_MESSAGE_DATA_LENGTH),
     Fragment(1, MAX_MESSAGE_DATA_LENGTH, MAX_MESSAGE_DATA_LENGTH,
              MAX_MESSAGE_DATA_LENGTH)}

OrderInit == Init

OrderNext ==
    \/ \E p \in OrderArrivals : packet_arrives(p)
    \/ \E stray \in Strays : message_recv(stray)

OrderSpec == OrderInit /\ [][OrderNext]_vars

TypeOK ==
    /\ \A i \in Slots : threads[i] # NULL =>
          /\ threads[i].id \in 1 .. MaxId
          /\ threads[i].state \in {THREAD_STATE_STOPPED, THREAD_STATE_RUNNING,
                                   THREAD_STATE_FINISHED}
          /\ threads[i].context \in 0 .. MaxId
    /\ current \in 0 .. MaxId
    /\ fault \in BOOLEAN
    /\ \A i \in Slots : (~fault /\ threads[i] # NULL /\ threads[i].context # 0
                          /\ threads[i].context # current)
                        => frames[threads[i].context].pc # "none"

(* ------------------------- notions of the claims ---------------------- *)

Occupied(i) == threads[i] # NULL

Running(i) == Occupied(i) /\ threads[i].state = THREAD_STATE_RUNNING

\* The descriptor of the executing thread, as the scheduler resolves it.
CurSlot == _thread_find_by_context(threads, current)

\* The threads a request may choose among: the Running ones, without the
\* caller iff the request is OTHER.
Eligible(request) ==
    {i \in Slots : Running(i)
                   /\ ~(request = THREAD_SCHEDULE_OTHER /\ i = CurSlot)}

MaxPriority(S) == MaxOf({threads[i].priority : i \in S})

\* The idle thread as _thread_init left it, and nobody else at its priority.
IdleIntact ==
    /\ Occupied(0)
    /\ threads[0].id = 1
    /\ threads[0].state = THREAD_STATE_RUNNING
    /\ \A i \in Slots : Occupied(i) => (threads[i].priority = INT_MIN <=> i = 0)

(* ------------------------------- C1 ----------------------------------- *)

\* C1 (as claimed): for every request the context _thread_schedule returns
\* belongs to a descriptor whose state is Running.  Stated here for the
\* states in which the idle thread is untouched and the caller is in the
\* table, where the claim fails all the same: a Stopped descriptor of the
\* selected priority is returned.
C1_ScheduledIsRunning ==
    (~fault /\ IdleIntact /\ CurSlot # NoSlot) =>
        \A r \in Requests :
            LET s == ScheduledSlot(threads, current, r)
            IN  s # NoSlot /\ threads[s].state = THREAD_STATE_RUNNING

(* ------------------------------- C2 ----------------------------------- *)

\* C2 (as claimed): for every request the returned thread has the maximum
\* priority among the eligible threads; with A (priority 0) and B (priority 5)
\* Running, schedule(A_ctx, CURRENT) returns B.
C2_ReturnsMaxPriority ==
    (~fault /\ IdleIntact /\ CurSlot # NoSlot) =>
        \A r \in Requests :
            LET s == ScheduledSlot(threads, current, r)
            IN  Eligible(r) # {} =>
                    /\ s # NoSlot
                    /\ threads[s].priority = MaxPriority(Eligible(r))

\* C2 (amended): when the caller's context is in the table, request CURRENT
\* with a Running caller returns the caller whatever the priorities of the
\* others; in every other case, if some thread is eligible, the returned
\* descriptor has the maximum priority among the eligible threads.
C2_MaxPriorityUnlessCurrentRuns ==
    CurSlot # NoSlot =>
        \A r \in Requests :
            LET s == ScheduledSlot(threads, current, r)
            IN  IF r = THREAD_SCHEDULE_CURRENT /\ Running(CurSlot)
                THEN s = CurSlot
                ELSE Eligible(r) # {} =>
                        /\ s # NoSlot
                        /\ threads[s].priority = MaxPriority(Eligible(r))

\* C2 witness: the caller Running at priority 0, another thread Running at
\* priority 5: CURRENT keeps the caller, ANY returns the other.
C2_Witness ==
    /\ ~fault
    /\ IdleIntact
    /\ CurSlot # NoSlot
    /\ Running(CurSlot)
    /\ threads[CurSlot].priority = 0
    /\ \E b \in Slots :
          /\ Running(b)
          /\ threads[b].priority = 5
          /\ ScheduledSlot(threads, current, THREAD_SCHEDULE_ANY) = b
    /\ ScheduledSlot(threads, current, THREAD_SCHEDULE_CURRENT) = CurSlot

(* ------------------------------- C3 ----------------------------------- *)

\* The traps whose case leaves the request at CURRENT: the counter traps 0-2
\* and thread_id.
CurrentTraps == {0, 1, 2, 7}

\* C3: a timer tick and every CURRENT-request syscall return the caller's own
\* context whenever the current thread is Running, whatever the priorities of
\* the other Running threads; another context is returned only when the
\* current thread is in the table and not Running.
C3_CurrentKeepsRunningCaller ==
    \A req \in {TimerRequest} \cup {TrapRequest(w) : w \in CurrentTraps} :
        LET next == _thread_schedule(threads, current, req)
        IN  /\ (CurSlot # NoSlot /\ Running(CurSlot)) => next = current
            /\ next # current => (CurSlot # NoSlot /\ ~Running(CurSlot))

\* C3 witness: a Running thread other than idle is executing while a thread
\* of higher priority is Running, and the tick returns the caller.
C3_Witness ==
    /\ ~fault
    /\ IdleIntact
    /\ CurSlot \notin {NoSlot, 0}
    /\ Running(CurSlot)
    /\ \E b \in Slots :
          Running(b) /\ threads[b].priority > threads[CurSlot].priority
    /\ _thread_schedule(threads, current, TimerRequest) = current

(* ------------------------------- C4 ----------------------------------- *)

\* The Running threads of the maximum priority among Running threads.
TopBand ==
    LET R == {i \in Slots : Running(i)}
    IN  {i \in R : threads[i].priority = MaxPriority(R)}

\* The next member of the top band after slot s, in slot order, wrapping.
NextInBand(s) ==
    LET after == {i \in TopBand : i > s}
    IN  IF after # {} THEN MinOf(after) ELSE MinOf(TopBand)

\* The slots n consecutive schedule(returned_ctx, OTHER) calls return,
\* starting from the context of slot s.
RECURSIVE OtherCalls(_, _)
OtherCalls(s, n) ==
    IF n = 0 THEN <<>>
    ELSE LET nx == IF s = NoSlot THEN NoSlot
                   ELSE ScheduledSlot(threads, threads[s].context,
                                      THREAD_SCHEDULE_OTHER)
         IN  <<nx>> \o OtherCalls(nx, n - 1)

RECURSIVE BandOrder(_, _)
BandOrder(s, n) ==
    IF n = 0 THEN <<>>
    ELSE <<NextInBand(s)>> \o BandOrder(NextInBand(s), n - 1)

\* C4 (as claimed, for K >= 2): with K Running threads at the maximum
\* priority among Running threads, K consecutive OTHER calls starting from
\* any of them return every one of the K threads, in slot order with
\* wrap-around.
C4_RoundRobinWithinK ==
    LET K == Cardinality(TopBand)
    IN  (~fault /\ K >= 2) =>
            \A s \in TopBand : OtherCalls(s, K) = BandOrder(s, K)

(* ------------------------------- C5 ----------------------------------- *)

\* C5 (as claimed): schedule(ctx, OTHER) returns a context other than the
\* caller's whenever another Running thread exists, and the caller's own only
\* when the caller is the idle thread and the sole Running thread.
C5_OtherLeavesCaller ==
    ~fault =>
        LET next == _thread_schedule(threads, current, THREAD_SCHEDULE_OTHER)
        IN  /\ (\E i \in Slots : Running(i) /\ i # CurSlot) => next # current
            /\ next = current =>
                  /\ CurSlot # NoSlot
                  /\ threads[CurSlot].id = 1
                  /\ \A i \in Slots : Running(i) <=> i = CurSlot

(* ------------------------------- C6 ----------------------------------- *)

\* C6 (as claimed): once a thread function has returned and its descriptor is
\* Finished, the scheduler never returns that descriptor's context again: the
\* thread never executes past the final thread_yield of _thread_run.
C6_FinishedNeverResumed ==
    ~fault =>
        \A i \in Slots :
            (/\ Occupied(i)
             /\ threads[i].id = cpu.self
             /\ threads[i].state = THREAD_STATE_FINISHED
             /\ threads[i].context = current) => cpu.pc # "done"

(* ------------------------------- C7 ----------------------------------- *)

\* C7 (as claimed): on a full table thread_create returns 0 without faulting
\* and changes neither the table nor the id counter; with a free slot the new
\* descriptor is in the lowest empty slot, Stopped, with priority 0.
C7_CreateOnFullTable ==
    [][thread_create =>
         LET s == FirstEmptySlot(threads)
         IN  IF s = NoSlot
             THEN ~fault' /\ ret' = 0 /\ UNCHANGED <<threads, thread_counter>>
             ELSE /\ threads'[s].state = THREAD_STATE_STOPPED
                  /\ threads'[s].priority = 0
                  /\ \A i \in Slots \ {s} : threads'[i] = threads[i]]_vars

(* ------------------------------- C8 ----------------------------------- *)

\* C8 (as claimed): exactly one descriptor has priority INT_MIN, it is the
\* idle thread (id 1), and its state is Running.
C8_IdleInvariant ==
    LET M == {i \in Slots : Occupied(i) /\ threads[i].priority = INT_MIN}
    IN  /\ Cardinality(M) = 1
        /\ \A i \in M : threads[i].id = 1 /\ threads[i].state = THREAD_STATE_RUNNING

(* ------------------------------- C9 ----------------------------------- *)

\* C9 (as claimed): exactly one descriptor has main_thread = 1 and it stays in
\* the table.
C9_MainInvariant ==
    Cardinality({i \in Slots : Occupied(i) /\ threads[i].main_thread = 1}) = 1

(* ------------------------------- C10 ---------------------------------- *)

\* C10: the ids in the table are pairwise distinct, ids are handed out in
\* strictly increasing order starting at 1 (so none is handed out twice), and
\* the ids present are those created and not since passed to thread_destroy.
C10_Ids ==
    /\ \A i, j \in Slots :
          (Occupied(i) /\ Occupied(j) /\ i # j) => threads[i].id # threads[j].id
    /\ assigned[1] = 1
    /\ \A k \in 1 .. (Len(assigned) - 1) : assigned[k] < assigned[k + 1]
    /\ {threads[i].id : i \in {j \in Slots : Occupied(j)}} = live_ids

\* C10 witness: an id was created and destroyed, and an id created after it
\* is in the table.
C10_Witness ==
    \E d \in 3 .. MaxId, i \in Slots :
        /\ freedAt[d] # 0
        /\ d \notin live_ids
        /\ Occupied(i)
        /\ threads[i].id > d

(* ------------------------------- C11 ---------------------------------- *)

\* The table after a call that moves the descriptors with id `id` and state
\* `from` to state `to` and touches nothing else.
OnlyStateMoves(id, from, to) ==
    /\ \A i \in Slots :
          IF Occupied(i)
          THEN /\ threads'[i] # NULL
               /\ threads'[i].id = threads[i].id
               /\ threads'[i].priority = threads[i].priority
               /\ threads'[i].main_thread = threads[i].main_thread
               /\ threads'[i].context = threads[i].context
               /\ threads'[i].state =
                     IF threads[i].id = id /\ threads[i].state = from
                     THEN to ELSE threads[i].state
          ELSE threads'[i] = NULL
    /\ UNCHANGED <<thread_counter, global_counters, counter_mem>>

\* C11: thread_start(id) makes the target Running iff the id is in the table
\* and Stopped, thread_stop(id) makes it Stopped iff it is in the table and
\* Running; in every other case no descriptor changes; no other descriptor,
\* no priority and no counter changes.
C11_StartStopFrame ==
    [][\A a4 \in Tids :
         /\ _syscall_trapa(4, a4, 0) =>
               OnlyStateMoves(a4, THREAD_STATE_STOPPED, THREAD_STATE_RUNNING)
         /\ _syscall_trapa(5, a4, 0) =>
               OnlyStateMoves(a4, THREAD_STATE_RUNNING, THREAD_STATE_STOPPED)]_vars

\* C11 witness: a created thread has been started and the idle or the main
\* thread stopped.
C11_Witness ==
    /\ ~fault
    /\ \E i \in Slots : Running(i) /\ threads[i].id >= 3
    /\ \E j \in Slots : /\ Occupied(j)
                        /\ threads[j].id \in {1, 2}
                        /\ threads[j].state = THREAD_STATE_STOPPED

(* ------------------------------- C12 ---------------------------------- *)

\* The counters of the table.
InTable(h) == h # 0 /\ \E i \in CSlots : global_counters[i] = h

\* The reference operations: increment adds 1 modulo 2^32, decrement
\* subtracts 1 unless the value is 0.
RefIncrement(v) ==
    IF v = Max32 THEN Zero32
    ELSE IF v[2] < Half - 1 THEN U32(v[1], v[2] + 1) ELSE U32(v[1] + 1, 0)

RefDecrement(v) ==
    IF v = Zero32 THEN Zero32
    ELSE IF v[2] > 0 THEN U32(v[1], v[2] - 1) ELSE U32(v[1] - 1, Half - 1)

\* The reference fold of a record of calls (0: increment, 1: decrement).
RECURSIVE RefFold(_, _)
RefFold(v, ops) ==
    IF ops = <<>> THEN v
    ELSE RefFold(IF Head(ops)[1] = 0 THEN RefIncrement(v) ELSE RefDecrement(v),
                 Tail(ops))

\* C12: global_counter_value on a counter of the table returns the reference
\* fold, from the value given to global_counter_init, of the increments and
\* decrements made on it since.
C12_ValueIsFold ==
    [][\A h \in Handles :
         (_syscall_trapa(2, h, 0) /\ InTable(h)) =>
             counter_ret' = RefFold(counter_init[h], counter_ops[h])]_vars

\* C12 witness: init(7); inc; inc; dec has been done on a counter and the
\* value 8 read.
C12_Witness ==
    \E h \in Handles :
        /\ InTable(h)
        /\ counter_init[h] = U32(0, 7)
        /\ [k \in 1 .. Len(counter_ops[h]) |-> counter_ops[h][k][1]] = <<0, 0, 1>>
        /\ counter_ret = U32(0, 8)

(* ------------------------------- C13 ---------------------------------- *)

\* The increments and the decrements user code has performed on counter h.
Increments(h) ==
    Cardinality({k \in 1 .. Len(counter_ops[h]) : counter_ops[h][k][1] = 0})

Decrements(h) ==
    Cardinality({k \in 1 .. Len(counter_ops[h]) : counter_ops[h][k][1] = 1})

\* A uint32_t value compared with a small integer.
AtMost(v, n) == v[1] = 0 /\ v[2] <= n

AtLeast(v, n) == v[1] > 0 \/ v[2] >= n

\* C13 (as claimed): a counter initialized to 0 never shows a value below 0 or
\* above its net increments, the increments minus the decrements performed.
C13_AtMostNetIncrements ==
    \A h \in Handles :
        (InTable(h) /\ counter_init[h] = Zero32) =>
            LET v == CounterValue(global_counters, counter_mem, h)
            IN  AtLeast(v, 0) /\ AtMost(v, Increments(h) - Decrements(h))

\* C13 (amended): a counter initialized to 0 never shows a value below 0,
\* below its net increments, or above the number of increments performed.
C13_BetweenNetAndIncrements ==
    \A h \in Handles :
        (InTable(h) /\ counter_init[h] = Zero32) =>
            LET v == CounterValue(global_counters, counter_mem, h)
            IN  /\ AtLeast(v, 0)
                /\ AtLeast(v, Increments(h) - Decrements(h))
                /\ AtMost(v, Increments(h))

\* C13 witness: a counter initialized to 0 was decremented at 0 and then
\* incremented: it shows 1 with net increments 0.
C13_Witness ==
    \E h \in Handles :
        /\ InTable(h)
        /\ counter_init[h] = Zero32
        /\ [k \in 1 .. Len(counter_ops[h]) |-> counter_ops[h][k][1]] = <<1, 0>>
        /\ counter_mem[h] = U32(0, 1)

(* ------------------------------- C14 ---------------------------------- *)

\* The increments thread t has performed on counter h.
IncrementsBy(h, t) ==
    Cardinality({k \in 1 .. Len(counter_ops[h]) : counter_ops[h][k] = <<0, t>>})

\* The increments all threads together have performed on counter h.
IncrementsByAll(h) ==
    LET Sum[t \in 0 .. MaxId] ==
            IncrementsBy(h, t) + (IF t = 0 THEN 0 ELSE Sum[t - 1])
    IN  Sum[MaxId]

\* v + n modulo 2^32.
RECURSIVE AddN(_, _)
AddN(v, n) == IF n = 0 THEN v ELSE AddN(RefIncrement(v), n - 1)

\* No update is lost: a counter nobody decremented holds its initial value
\* plus the increments of every thread.
NoLostUpdate ==
    \A h \in Handles :
        (InTable(h) /\ Decrements(h) = 0) =>
            counter_mem[h] = AddN(counter_init[h], IncrementsByAll(h))

\* C14: whatever the interleaving of timer ticks and yields with the
\* increments of the threads, a counter holds its initial value plus all the
\* increments made, and a counter trap issued by a Running thread resumes
\* that thread.
C14_CountersAtomic ==
    [][/\ NoLostUpdate'
       /\ \A which \in {0, 1, 2}, h \in HandleInputs :
             (_syscall_trapa(which, h, 0) /\ CurSlot # NoSlot /\ Running(CurSlot))
                 => (current' = current /\ cpu' = cpu)]_vars

\* C14 witness: two threads have each incremented the same counter twice,
\* taking turns, and the counter holds its initial value plus 4.
C14_Witness ==
    \E h \in Handles :
        /\ InTable(h)
        /\ IncrementsBy(h, 2) = 2
        /\ IncrementsBy(h, 3) = 2
        /\ counter_ops[h][1][2] # counter_ops[h][2][2]
        /\ counter_ops[h][2][2] # counter_ops[h][3][2]
        /\ counter_mem[h] = AddN(counter_init[h], 4)

(* ------------------------------- C15 ---------------------------------- *)

\* C15: for a handle that is not in the counter table (null, never returned,
\* or freed), increment and decrement change no counter and no slot,
\* global_counter_value returns 0 and global_counter_free does nothing.
C15_UnknownHandleIgnored ==
    [][\A h \in HandleInputs :
         ~InTable(h) =>
            /\ \A which \in {0, 1} :
                  _syscall_trapa(which, h, 0) =>
                      UNCHANGED <<global_counters, counter_mem>>
            /\ _syscall_trapa(2, h, 0) =>
                  (counter_ret' = Zero32 /\ UNCHANGED <<global_counters, counter_mem>>)
            /\ global_counter_free(h) =>
                  UNCHANGED <<global_counters, counter_mem>>]_vars

\* C15 witness: a counter has been freed (the first slot is empty again, its
\* handle is stale) while another counter holds a value it was counted to.
C15_Witness ==
    /\ ~fault
    /\ cpu.pc = "run"
    /\ global_counters[0] = 0
    /\ \E i \in CSlots, h \in Handles :
          /\ global_counters[i] # 0
          /\ ~InTable(h)
          /\ counter_ops[global_counters[i]] # <<>>
          /\ counter_mem[global_counters[i]] # counter_init[global_counters[i]]

(* ------------------------------- C16 ---------------------------------- *)

\* What the claim says thread_info(tid) returns on the present table.
InfoAsClaimed(r, tid) ==
    LET S == {i \in Slots : Occupied(i) /\ threads[i].id = tid}
    IN  IF S = {} THEN r.priority = 0 /\ r.alive = 0 /\ r.running = 0
        ELSE \A i \in S :
               /\ r.alive \in {0, 1}
               /\ r.running \in {0, 1}
               /\ r.alive = 1 <=> threads[i].state \in {THREAD_STATE_STOPPED,
                                                        THREAD_STATE_RUNNING,
                                                        THREAD_STATE_WAITING}
               /\ r.running = 1 <=> threads[i].state = THREAD_STATE_RUNNING
               /\ r.priority = threads[i].priority

\* C16: thread_info(id) returns alive = 1 exactly for Stopped, Running and
\* Waiting, running = 1 exactly for Running, and the priority; for an id not
\* in the table an all-zero record; and it changes no table state.
C16_ThreadInfo ==
    [][\A tid \in Tids :
         thread_info_call(tid) =>
            (InfoAsClaimed(info'.result, tid) /\ UNCHANGED <<tvars, cvars>>)]_vars

\* C16 witness: thread_info was asked about a Waiting thread with priority 5
\* and reported it alive and not running.
C16_Witness ==
    /\ info.asked
    /\ \E i \in Slots :
          /\ Occupied(i)
          /\ threads[i].id = info.tid
          /\ threads[i].state = THREAD_STATE_WAITING
          /\ threads[i].priority = 5
    /\ info.result = [priority |-> 5, alive |-> 1, running |-> 0]

(* ------------------------------- C17 ---------------------------------- *)

EmptyWindow == [i \in WSlots |-> NoPacket]

\* The fragments message_send emitted for the recorded call m.
FragmentsOf(m) == SendLoop(m.type, m.seq, m.data, Len(m.data), 0)

\* The window holds the fragments frags in the order they were emitted,
\* from slot 0 on, and nothing else.
HoldsInOrder(frags) ==
    \A i \in WSlots :
        window[i] = IF i < Len(frags) THEN frags[i + 1] ELSE NoPacket

\* The window holds every fragment of frags once, in any slots, and nothing
\* else.
HoldsExactly(frags) ==
    /\ {window[i] : i \in {j \in WSlots : window[j] # NoPacket}}
          = {frags[k] : k \in 1 .. Len(frags)}
    /\ Cardinality({j \in WSlots : window[j] # NoPacket}) = Len(frags)

\* The last message_send succeeded, into an empty window.
SentAlone ==
    /\ sent_msgs # <<>>
    /\ sent_msgs[Len(sent_msgs)].ret = 0
    /\ sent_msgs[Len(sent_msgs)].pending = 0

\* What message_recv hands back when it delivers the message of call m.
Delivered(m) ==
    [ret |-> 0, type |-> m.type, data |-> m.data, length |-> Len(m.data)]

\* C17: a message sent over loopback into an empty window, its fragments
\* stored in the order sent, is returned by the next message_recv with result
\* 0 and exactly the type, length and payload sent.
C17_RoundTrip ==
    [][\A stray \in Strays :
         (/\ message_recv(stray)
          /\ SentAlone
          /\ HoldsInOrder(FragmentsOf(sent_msgs[Len(sent_msgs)])))
            => (/\ recv' = Delivered(sent_msgs[Len(sent_msgs)])
                /\ ~msg_fault')]_vars

\* C17 witness: a payload of three fragments, sent into an empty window, has
\* been received whole.
C17_Witness ==
    /\ SentAlone
    /\ Len(sent_msgs[Len(sent_msgs)].data) > 2 * MAX_MESSAGE_DATA_LENGTH
    /\ recv = Delivered(sent_msgs[Len(sent_msgs)])
    /\ window = EmptyWindow

(* ------------------------------- C18 ---------------------------------- *)

\* The window that holds the fragments frags in the order they were emitted.
InOrderWindow(frags) ==
    [i \in WSlots |-> IF i < Len(frags) THEN frags[i + 1] ELSE NoPacket]

\* C18: whatever slots the fragments of one sent message occupy,
\* message_recv returns what it returns for the fragments in sending order:
\* result 0 with the type and the payload sent.
C18_AnySlotOrder ==
    [][\A stray \in Strays :
         (/\ message_recv(stray)
          /\ SentAlone
          /\ HoldsExactly(FragmentsOf(sent_msgs[Len(sent_msgs)])))
            => LET m == sent_msgs[Len(sent_msgs)]
                   inorder == message_recv_on(InOrderWindow(FragmentsOf(m)),
                                              recv, stray)
               IN  /\ recv' = inorder.out
                   /\ recv' = Delivered(m)
                   /\ window' = EmptyWindow
                   /\ ~msg_fault']_vars

\* C18 witness: the fragments of a message lie in the window in another
\* order than sent, the last one in front.
C18_Witness ==
    /\ SentAlone
    /\ LET frags == FragmentsOf(sent_msgs[Len(sent_msgs)])
       IN  /\ Len(frags) >= 2
           /\ HoldsExactly(frags)
           /\ window[0] = frags[Len(frags)]

(* ------------------------------- C19 ---------------------------------- *)

\* Two messages have been sent with result 0, the second while the fragments
\* of the first were all in the window, and the window still holds every
\* fragment of both, in whatever slots.
BothPending ==
    /\ Len(sent_msgs) = 2
    /\ sent_msgs[1].ret = 0
    /\ sent_msgs[2].ret = 0
    /\ sent_msgs[1].seq # sent_msgs[2].seq
    /\ HoldsExactly(FragmentsOf(sent_msgs[1]) \o FragmentsOf(sent_msgs[2]))

\* C19: with all fragments of two messages of distinct sequences in the
\* window, in any interleaving of slots, two consecutive message_recv calls
\* return 0 and deliver each message once, with its own type and payload;
\* the window is then empty and a third call returns -5.
C19_TwoMessages ==
    [][\A stray \in Strays :
         (message_recv(stray) /\ BothPending) =>
            LET first == message_recv_on(window, recv, stray)
                second == message_recv_on(first.win, first.out, stray)
                third == message_recv_on(second.win, second.out, stray)
                m1 == Delivered(sent_msgs[1])
                m2 == Delivered(sent_msgs[2])
            IN  /\ recv' = first.out
                /\ window' = first.win
                /\ \/ first.out = m1 /\ second.out = m2
                   \/ first.out = m2 /\ second.out = m1
                /\ second.win = EmptyWindow
                /\ third.out.ret = -5
                /\ ~first.ub /\ ~second.ub /\ ~third.ub]_vars

\* C19 witness: two messages of two fragments each were in the window
\* together, their slots interleaved, and the first receive has delivered one
\* of them and left the fragments of the other.
C19_Witness ==
    /\ Len(sent_msgs) = 2
    /\ sent_msgs[1].ret = 0
    /\ sent_msgs[2].ret = 0
    /\ sent_msgs[1].pending = 0
    /\ sent_msgs[2].pending = 2
    /\ sent_msgs[1].type # sent_msgs[2].type
    /\ recv \in {Delivered(sent_msgs[1]), Delivered(sent_msgs[2])}
    /\ window[0] = NoPacket
    /\ window[1] # NoPacket
    /\ window[2] = NoPacket
    /\ window[3] # NoPacket

(* ------------------------------- C20 ---------------------------------- *)

\* A packet message_recv takes for a fragment: a whole header, sequence not 0.
Valid(p) == p # NoPacket /\ p.len >= MESSAGE_HEADER_LENGTH /\ p.seq # 0

Sequences(W) == {W[i].seq : i \in {j \in WSlots : Valid(W[j])}}

\* The slot of the fragment of sequence s the scan meets first.
FirstOf(W, s) == MinOf({i \in WSlots : Valid(W[i]) /\ W[i].seq = s})

\* Sequence s is complete in W: a fragment is there for every offset index
\* of the length its first fragment announces.
Complete(W, s) ==
    \A at \in 0 .. (Needed(W[FirstOf(W, s)].total) - 1) :
        \E j \in WSlots :
            /\ Valid(W[j]) /\ W[j].seq = s
            /\ W[j].loc \div MAX_MESSAGE_DATA_LENGTH = at

NoneComplete(W) == \A s \in Sequences(W) : ~Complete(W, s)

\* Every mark the scan makes for a fragment of W falls inside the bitmap
\* allocated for its sequence (message.c:140-154).
MarksInside(W) ==
    \A i \in WSlots :
        (Valid(W[i]) /\ Needed(W[i].total) > 0) =>
            W[i].loc \div MAX_MESSAGE_DATA_LENGTH
                < Needed(W[FirstOf(W, W[i].seq)].total)

\* W without its bogus packets.
Cleaned(W) == [i \in WSlots |-> IF Valid(W[i]) THEN W[i] ELSE NoPacket]

\* The slots of W that hold a packet.
OccupiedSlots(W) == {i \in WSlots : W[i] # NoPacket}

\* The outcome of the message_recv call that meets stray, when it does
\* not stop the program: the singleton of message_recv_on's result, or {}.
Returns(stray) ==
    {r \in {message_recv_on(window, recv, stray)} :
        ~msg_fault /\ ~(r.ub /\ stray.kind = "fault")}

\* C21 (as claimed): if no sequence in the window is complete, every call of
\* message_recv returns -5 and leaves the set of occupied slots as it was.
C21_NotReadyDiscardsNothing ==
    \A stray \in Strays : \A r \in Returns(stray) :
        NoneComplete(window) =>
            /\ r.out.ret = -5
            /\ OccupiedSlots(r.win) = OccupiedSlots(window)

\* C21 (amended): a call of message_recv that returns -5 found no complete
\* sequence and discarded the bogus packets and nothing else; and if no
\* sequence is complete, a call that writes outside no bitmap returns -5,
\* leaves the caller's variables alone, and a second call on the window it
\* left returns -5 again and changes nothing.
C21_NotReadyDiscardsOnlyBogus ==
    \A stray \in Strays : \A r \in Returns(stray) :
        /\ r.out.ret = -5 =>
              r.win = Cleaned(window) /\ NoneComplete(window)
        /\ (NoneComplete(window) /\ MarksInside(window)) =>
              /\ r.out = [recv EXCEPT !.ret = -5]
              /\ r.win = Cleaned(window)
              /\ \A again \in Strays :
                    message_recv_on(r.win, r.out, again)
                        = [win |-> r.win, ub |-> FALSE, out |-> r.out]

\* C21 witness: message_recv returned -5 on a window that holds the first
\* fragment of an incomplete sequence, and no bogus packet is left in it.
C21_Witness ==
    /\ recv.ret = -5
    /\ Sequences(window) # {}
    /\ NoneComplete(window)
    /\ window = Cleaned(window)

(* ------------------------------- C22 ---------------------------------- *)

\* The slots of W that hold a bogus packet.
BogusSlots(W) == {i \in WSlots : W[i] # NoPacket /\ ~Valid(W[i])}

\* C22: every call of message_recv, whatever it returns, discards every
\* bogus packet of the window, and returns the message and leaves the valid
\* fragments that the same call would on the window without the bogus packets.
C22_BogusDiscardedHarmlessly ==
    \A stray \in Strays : \A r \in Returns(stray) :
        /\ \A i \in BogusSlots(window) : r.win[i] = NoPacket
        /\ r = message_recv_on(Cleaned(window), recv, stray)

\* C22 witness: the window holds a short packet, a packet of sequence 0 and
\* both fragments of a message; message_recv returns the message and empties
\* the window.
C22_Witness ==
    /\ \E i \in BogusSlots(window) : window[i].len < MESSAGE_HEADER_LENGTH
    /\ \E i \in BogusSlots(window) : window[i].len >= MESSAGE_HEADER_LENGTH
    /\ \E stray \in Strays : \E r \in Returns(stray) :
          /\ r.out.ret = 0
          /\ r.out.data = Pattern(1, 2 * MAX_MESSAGE_DATA_LENGTH)
          /\ OccupiedSlots(r.win) = {}

(* ------------------------------- C23 ---------------------------------- *)

\* C23: the message sent after n successful sends uses sequence
\* (n mod (2^16 - 1)) + 1: 1 for the first, 1 again after 65535 of them,
\* never 0; a send that returns 0 moves the counter one on, from 65535 to 1;
\* and every fragment a send hands to the transport carries the sequence of
\* its message.
C23_SequenceNumbering ==
    [][/\ sequence' = SequenceAfter(sent_ok')
       /\ sequence' # 0
       /\ sent_ok' # sent_ok =>
             sequence' = IF sequence = Half - 1 THEN 1 ELSE sequence + 1
       /\ \A i \in WSlots :
             (window[i] = NoPacket /\ window'[i] # NoPacket) =>
                 window'[i].seq = sequence /\ window'[i].seq # 0]_vars

\* C23 witness: the 65535th successful send used sequence 65535 in both
\* fragments of its message and the counter stands at 1.
C23_Witness ==
    /\ sent_ok = Half - 1
    /\ sequence = 1
    /\ sent_msgs # <<>>
    /\ sent_msgs[Len(sent_msgs)].ret = 0
    /\ sent_msgs[Len(sent_msgs)].seq = Half - 1
    /\ Cardinality({i \in WSlots : window[i] # NoPacket
                                     /\ window[i].seq = Half - 1}) >= 2

(* ------------------------------- C24 ---------------------------------- *)

\* C24: a message_send call with length > 65535 returns -3, leaves every
\* slot of the transport as it was and leaves the sequence counter alone.
C24_TooLongRejected ==
    [][\A in \in SendInputs, failAt \in FailInputs :
         (in[3] > MAX_MESSAGE_LENGTH
            /\ message_send(in[1], in[2], in[3], failAt)) =>
               /\ send_ret' = -3
               /\ window' = window
               /\ sequence' = sequence]_vars

\* C24 witness: after one message was sent, a call with a length beyond
\* 65535 has returned -3; the fragments of the first message are the
\* only packets in the window and the counter stands at 2.
C24_Witness ==
    /\ Len(sent_msgs) = 2
    /\ sent_msgs[1].ret = 0
    /\ sent_msgs[2].ret = -3
    /\ send_ret = -3
    /\ sequence = 2
    /\ HoldsExactly(FragmentsOf(sent_msgs[1]))

(* ------------------------------- C25 ---------------------------------- *)

\* The slots a step fills.
Filled == {i \in WSlots : window[i] = NoPacket /\ window'[i] # NoPacket}

\* The call of packetlib_send that fails in a message_send of n fragments:
\* the one the transport fails by itself or the first to find the window
\* full, whichever comes first (0: none fails).
FailingCall(n, failAt) ==
    LET free == Cardinality({i \in WSlots : window[i] = NoPacket})
        full == IF free < n THEN free + 1 ELSE 0
        own == IF failAt \in 1 .. n THEN failAt ELSE 0
    IN  IF own = 0 THEN full
        ELSE IF full = 0 THEN own
        ELSE MinOf({own, full})

\* C25: when the i-th call of packetlib_send of a message_send fails, the
\* call returns -4, the window has gained the first i - 1 fragments of the
\* message, once each, and nothing else, and every packet that was in the
\* window is still there.
C25_FailureStopsSend ==
    [][\A in \in SendInputs, failAt \in FailInputs :
         (in[3] <= MAX_MESSAGE_LENGTH
            /\ message_send(in[1], in[2], in[3], failAt)) =>
               LET frags == SendLoop(in[1], sequence, in[2], in[3], 0)
                   i == FailingCall(Len(frags), failAt)
               IN  i # 0 =>
                     /\ send_ret' = -4
                     /\ \A j \in WSlots \ Filled : window'[j] = window[j]
                     /\ Cardinality(Filled) = i - 1
                     /\ {window'[j] : j \in Filled}
                           = {frags[n] : n \in 1 .. (i - 1)}]_vars

\* C25 witness: a message of three fragments was sent into an empty
\* window, the second packetlib_send failed, the call returned -4 and the
\* window holds the first fragment and nothing else.
C25_Witness ==
    /\ sent_msgs # <<>>
    /\ LET m == sent_msgs[Len(sent_msgs)]
       IN  /\ m.ret = -4
           /\ m.pending = 0
           /\ Len(FragmentsOf(m)) = 3
           /\ send_ret = -4
           /\ HoldsExactly(<<FragmentsOf(m)[1]>>)

(* ------------------------------- C26 ---------------------------------- *)

\* C26 (as claimed): whenever a timer tick or a trap can call the scheduler,
\* the context it passes (the one the processor runs on) is the context of a
\* descriptor in the table, so the scheduler never takes its fallback and
\* never hands back the context of a destroyed thread.
C26_CurrentInTable ==
    ~fault => _thread_find_by_context(threads, current) # NoSlot

(* ------------------------------- C27 ---------------------------------- *)

\* C27 (as claimed): the context the scheduler returns at a timer tick or a
\* trap, which the handler installs as the running one, is never null.
C27_NeverNullContext == current # 0

(* ------------------------------- C28 ---------------------------------- *)

\* The descriptor _thread_init created for _idle_thread.
IsIdle(i) == Occupied(i) /\ threads[i].id = 1

\* C28 (as claimed): for no request does the scheduler return the idle
\* thread while another thread of higher priority is Running, the caller of
\* thread_yield included.
C28_IdleNeverBelowRunning ==
    \A r \in Requests :
        LET s == ScheduledSlot(threads, current, r)
        IN  (s # NoSlot /\ IsIdle(s)) =>
                \A j \in Slots \ {s} :
                    Running(j) => threads[j].priority <= threads[s].priority

\* C28 (amended): the scheduler returns the idle thread only when it is the
\* Running caller of a CURRENT request, or when no eligible thread (Running,
\* and not the caller if the request is OTHER) has a higher priority.
C28_IdleOnlyWithoutEligibleAbove ==
    \A r \in Requests :
        LET s == ScheduledSlot(threads, current, r)
        IN  (s # NoSlot /\ IsIdle(s)) =>
                \/ r = THREAD_SCHEDULE_CURRENT /\ s = CurSlot /\ Running(s)
                \/ \A j \in Eligible(r) :
                      threads[j].priority <= threads[s].priority

\* C28 witness: main, the only Running thread besides idle, has yielded and
\* the scheduler has returned the idle thread, which a timer tick keeps.
C28_Witness ==
    /\ ~fault
    /\ IdleIntact
    /\ CurSlot = 0
    /\ cpu.self = 1
    /\ Cardinality({j \in Slots : Running(j)}) = 2
    /\ \E j \in Slots : Running(j) /\ threads[j].priority > INT_MIN
    /\ ScheduledSlot(threads, current, THREAD_SCHEDULE_CURRENT) = 0

(* ------------------------------- C29 ---------------------------------- *)

\* C29 (as claimed): whenever a helper is about to read or write a table
\* slot or a descriptor, interrupts are disabled, and when a helper is about
\* to return the interrupt mask is the one it was entered with.
C29_HelpersMaskInterrupts ==
    helpers # <<>> =>
        /\ NextStmt.op = "access" => irq_mask = 1
        /\ NextStmt.op = "return" => irq_mask = Top.entry

(* ------------------------------- C30 ---------------------------------- *)

\* What the scheduler may not touch: the table and its descriptors, the
\* id counter, the counters and the interrupt mask.
SchedulerLeaves ==
    UNCHANGED <<threads, thread_counter, global_counters, counter_mem, irq_mask>>

\* The context thread.c:178-284 returns for a table, a context and a request.
ReturnedContext(T, state, request) ==
    IF ScheduledSlot(T, state, request) = NoSlot THEN state
    ELSE T[ScheduledSlot(T, state, request)].context

\* The traps that call the scheduler and write no table themselves:
\* thread_yield (request OTHER), thread_id (CURRENT) and thread_start of
\* the id 0, which no descriptor has (ANY).
ScheduleOnlyTraps == {3, 7, 4}

RECURSIVE PayloadSum(_)
PayloadSum(frags) ==
    IF frags = <<>> THEN 0
    ELSE Len(frags[1].data) + PayloadSum(Tail(frags))

\* max(1, ceil(L / D)).
FragmentCount(L) == IF L = 0 THEN 1 ELSE Needed(L)

\* C31: message_send of a payload of length L <= 65535 builds exactly
\* max(1, ceil(L / D)) packets, the n-th with offset (n - 1) * D, the type
\* and total_length L of the call, and the min(D, L - offset) payload bytes
\* found at that offset, so that the payload lengths sum to L (a message of
\* length 0 is one packet of 8 bytes with total_length 0 and offset 0); and
\* a call that returns 0 has handed the transport those packets, once each.
C31_Fragmentation ==
    [][\A in \in SendInputs, failAt \in FailInputs :
         (in[3] <= MAX_MESSAGE_LENGTH
            /\ message_send(in[1], in[2], in[3], failAt)) =>
               LET L == in[3]
                   frags == SendLoop(in[1], sequence, in[2], L, 0)
               IN  /\ Len(frags) = FragmentCount(L)
                   /\ \A n \in 1 .. Len(frags) :
                        LET offset == (n - 1) * MAX_MESSAGE_DATA_LENGTH
                            size == IF L - offset > MAX_MESSAGE_DATA_LENGTH
                                    THEN MAX_MESSAGE_DATA_LENGTH
                                    ELSE L - offset
                        IN  /\ frags[n].loc = offset
                            /\ frags[n].type = in[1]
                            /\ frags[n].total = L
                            /\ frags[n].len = MESSAGE_HEADER_LENGTH + size
                            /\ frags[n].data
                                  = SubSeq(in[2], offset + 1, offset + size)
                   /\ PayloadSum(frags) = L
                   /\ L = 0 => frags = <<Packet(MESSAGE_HEADER_LENGTH, in[1],
                                                sequence, 0, 0, <<>>)>>
                   /\ send_ret' = 0 =>
                        /\ Cardinality(Filled) = Len(frags)
                        /\ {window'[j] : j \in Filled}
                              = {frags[n] : n \in 1 .. Len(frags)}]_vars

\* C31 witness: a message of length 0 and then one of 2 * D + 1 bytes were
\* sent with result 0; the window holds the header-only packet of the first
\* and the three fragments of the second, the last with one payload byte.
C31_Witness ==
    /\ Len(sent_msgs) = 2
    /\ sent_msgs[1].ret = 0
    /\ sent_msgs[2].ret = 0
    /\ Len(sent_msgs[1].data) = 0
    /\ Len(sent_msgs[2].data) = 2 * MAX_MESSAGE_DATA_LENGTH + 1
    /\ HoldsExactly(FragmentsOf(sent_msgs[1]) \o FragmentsOf(sent_msgs[2]))
    /\ \E i \in WSlots : window[i].len = MESSAGE_HEADER_LENGTH
    /\ \E i \in WSlots :
          /\ window[i].loc = 2 * MAX_MESSAGE_DATA_LENGTH
          /\ window[i].len = MESSAGE_HEADER_LENGTH + 1

(* ------------------------------- C32 ---------------------------------- *)

\* The sequences complete in W.
CompleteIn(W) == {s \in Sequences(W) : Complete(W, s)}

\* The complete sequence of W whose first fragment lies in the lowest slot.
FirstComplete(W) ==
    CHOOSE s \in CompleteIn(W) :
        \A t \in CompleteIn(W) : FirstOf(W, s) <= FirstOf(W, t)

\* The sequences whose fragments the call that returned r took out of the
\* window.
TakenSequences(r) ==
    {window[i].seq : i \in {j \in WSlots : Valid(window[j])
                                             /\ r.win[j] = NoPacket}}

Without(W, s) ==
    [i \in WSlots |-> IF Valid(W[i]) /\ W[i].seq # s THEN W[i] ELSE NoPacket]

\* The highest slot of W that holds a fragment of sequence s: the one whose
\* type the inner loop copies last.
LastOf(W, s) ==
    CHOOSE i \in WSlots :
        /\ Valid(W[i]) /\ W[i].seq = s
        /\ \A j \in WSlots : (Valid(W[j]) /\ W[j].seq = s) => j <= i

\* C33: a call of message_recv that returns 0 has delivered one sequence of
\* the window (length from its first fragment, type from its fragments) and
\* has discarded every slot that held a fragment of that sequence, duplicates
\* included, and every bogus packet; every slot that held a valid fragment
\* of another sequence holds it still, unchanged.
C33_DiscardsDeliveredOnly ==
    \A stray \in Strays : \A r \in Returns(stray) :
        r.out.ret = 0 =>
            \E s \in Sequences(window) :
                /\ r.out.length = window[FirstOf(window, s)].total
                /\ r.out.type = window[LastOf(window, s)].type
                /\ r.win = Without(window, s)

\* C33 witness: the window holds a one-fragment message of sequence 1 twice,
\* a bogus packet and a fragment of sequence 2; message_recv returns 0 and
\* leaves the fragment of sequence 2 and nothing else.
C33_Witness ==
    /\ Cardinality({i \in WSlots : Valid(window[i]) /\ window[i].seq = 1}) = 2
    /\ BogusSlots(window) # {}
    /\ \E i \in WSlots : Valid(window[i]) /\ window[i].seq = 2
    /\ \E stray \in Strays : \E r \in Returns(stray) :
          /\ r.out.ret = 0
          /\ r.out.type = 1
          /\ r.win = Without(window, 1)
          /\ Cardinality(OccupiedSlots(r.win)) = 1

(* ------------------------------- C34 ---------------------------------- *)

EmptyCounterSlots == {i \in CSlots : global_counters[i] = 0}

\* C35: with no empty slot in the counter table global_counter_init returns
\* null and leaves every slot and every counter value as it was; otherwise
\* it returns a pointer no slot held, stored in the lowest empty slot, the
\* counter behind it holding the initial value, and every other slot and
\* counter as before; and global_counter_free of a pointer in the table
\* empties its slot, which a later init may then fill.
C35_CounterTable ==
    [][/\ \A v \in InitValues :
            global_counter_init(v) =>
               IF EmptyCounterSlots = {}
               THEN ret' = 0 /\ UNCHANGED <<global_counters, counter_mem>>
               ELSE /\ ret' \in Handles
                    /\ \A i \in CSlots : global_counters[i] # ret'
                    /\ \A i \in CSlots :
                          global_counters'[i] =
                              IF i = MinOf(EmptyCounterSlots) THEN ret'
                              ELSE global_counters[i]
                    /\ \A h \in Handles :
                          counter_mem'[h] =
                              IF h = ret' THEN v ELSE counter_mem[h]
       /\ \A h \in Handles :
            (global_counter_free(h) /\ \E i \in CSlots : global_counters[i] = h)
               => /\ \A i \in CSlots :
                        global_counters'[i] =
                            IF global_counters[i] = h THEN 0
                            ELSE global_counters[i]
                  /\ EmptyCounterSlots # {} =>
                        \A i \in EmptyCounterSlots : global_counters'[i] = 0
                  /\ \A g \in Handles \ {h} : counter_mem'[g] = counter_mem[g]]_vars

\* C35 witness: slot 0 was emptied by global_counter_free while slot 1 held a
\* counter, and has been filled again: slot 1 holds the pointer malloc gave
\* first and a counter that has been incremented, slot 0 the later pointer.
C35_Witness ==
    /\ EmptyCounterSlots = {}
    /\ global_counters[1] = 1
    /\ global_counters[0] = 2
    /\ counter_ops[1] # <<>>
    /\ counter_ops[2] = <<>>
    /\ counter_init[2] = U32(0, 7)
    /\ ret = 2

(* ------------------------------- C36 ---------------------------------- *)

\* C36 (as claimed): whatever valid-looking packets the window holds, a call
\* of message_recv writes each bitmap only below the size allocated for it,
\* writes no bitmap that was not allocated, and copies every payload inside
\* the buffer of total_length bytes.
C36_RecvMemorySafe ==
    \A stray \in Strays : ~message_recv_on(window, recv, stray).ub

(* ------------------------------- C37 ---------------------------------- *)

\* The last message_send returned -4.
LastFailed == sent_msgs # <<>> /\ sent_msgs[Len(sent_msgs)].ret = -4

\* C37: a message_send that returns -4 leaves the sequence counter as it
\* was, only one that returns 0 changes it (message_recv never does), and
\* the fragments of the send that follows a failed one carry the sequence
\* number of the failed message.
C37_FailedSendKeepsSequence ==
    [][/\ \A in \in SendInputs, failAt \in FailInputs :
            message_send(in[1], in[2], in[3], failAt) =>
               /\ send_ret' = -4 => sequence' = sequence
               /\ sequence' # sequence => send_ret' = 0
               /\ LastFailed =>
                     /\ sequence = sent_msgs[Len(sent_msgs)].seq
                     /\ \A i \in Filled :
                           window'[i].seq = sent_msgs[Len(sent_msgs)].seq
       /\ sent_msgs' = sent_msgs => sequence' = sequence]_vars

\* C37 witness: a send of three fragments failed at its second one, the next
\* send returned 0, and the window holds the fragment left by the first and
\* the fragments of the second, all with sequence 1.
C37_Witness ==
    /\ Len(sent_msgs) = 2
    /\ sent_msgs[1].ret = -4
    /\ sent_msgs[1].pending = 0
    /\ sent_msgs[2].ret = 0
    /\ sent_msgs[2].pending = 1
    /\ sent_msgs[2].seq = sent_msgs[1].seq
    /\ sent_msgs[2].type # sent_msgs[1].type
    /\ sequence = 2
    /\ HoldsExactly(<<FragmentsOf(sent_msgs[1])[1]>>
                        \o FragmentsOf(sent_msgs[2]))
    /\ \A i \in WSlots : window[i] # NoPacket => window[i].seq = 1

(* ------------------------------- C38 ---------------------------------- *)

\* Every descriptor of table T is Stopped, Running or Finished and waits
\* for no semaphore and no thread.
NoneWaiting(T) ==
    \A i \in Slots : T[i] # NULL =>
        /\ T[i].state \in {THREAD_STATE_STOPPED, THREAD_STATE_RUNNING,
                           THREAD_STATE_FINISHED}
        /\ T[i].waiting_semaphore = 0
        /\ T[i].waiting_thread = 0

\* C38: under create, start, stop, set_priority, destroy, yield, timer
\* ticks, thread-function returns and counter traps every descriptor is
\* Stopped, Running or Finished (never Waiting or Zombie) with
\* waiting_semaphore and waiting_thread zero, the semaphore table is empty,
\* and a descriptor that is Finished stays Finished for as long as it is in
\* the table.
C38_OnlyThreeStates ==
    /\ NoneWaiting(threads)
    /\ NoSemaphores
    /\ [][/\ NoneWaiting(threads')
          /\ semaphores' = semaphores
          /\ \A i \in Slots :
                (/\ Occupied(i)
                 /\ threads[i].state = THREAD_STATE_FINISHED
                 /\ threads'[i] # NULL
                 /\ threads'[i].id = threads[i].id)
                    => threads'[i].state = THREAD_STATE_FINISHED]_vars

\* C38 witness: a created thread was started, has run to the end of its
\* function and is Finished; idle and main are Running and main runs.
C38_Witness ==
    /\ ~fault
    /\ \E i \in Slots : /\ Occupied(i)
                        /\ threads[i].state = THREAD_STATE_FINISHED
                        /\ threads[i].context # 0
                        /\ frames[threads[i].context].pc = "done"
    /\ Running(0)
    /\ Running(1)
    /\ cpu.self = 2
    /\ NoneWaiting(threads)

(* ------------------------------- C39 ---------------------------------- *)

\* C39: a call of message_recv that returns -5 leaves *type, *data and
\* *length as the caller had them; one that returns 0 for a message of
\* length 0 sets *length to 0, *data to null (no buffer) and *type to the
\* type of a fragment it took.
C39_OutParameters ==
    \A stray \in Strays : \A r \in Returns(stray) :
        /\ r.out.ret = -5 =>
              /\ r.out.type = recv.type
              /\ r.out.data = recv.data
              /\ r.out.length = recv.length
        /\ (r.out.ret = 0 /\ r.out.length = 0) =>
              /\ r.out.data = <<>>
              /\ \E i \in WSlots :
                    /\ Valid(window[i])
                    /\ r.win[i] = NoPacket
                    /\ r.out.type = window[i].type

\* C39 witness: a message with payload and then one of length 0 and another
\* type were sent and received in that order, the second receive replacing
\* the buffer of the first by null, and a third call has returned -5 and
\* left type, null and length 0 in place.
C39_Witness ==
    /\ Len(sent_msgs) = 2
    /\ sent_msgs[1].ret = 0
    /\ sent_msgs[2].ret = 0
    /\ Len(sent_msgs[1].data) > 0
    /\ Len(sent_msgs[2].data) = 0
    /\ sent_msgs[2].type # sent_msgs[1].type
    /\ sent_msgs[2].pending = 0
    /\ window = EmptyWindow
    /\ recv = [ret |-> -5, type |-> sent_msgs[2].type, data |-> <<>>,
               length |-> 0]

(* ------------------------------- C40 ---------------------------------- *)

\* Values gp_regs[0] of the caller may hold when it traps.
R0Inputs == {0, 1, 77}

\* The caller of the trap is a Running descriptor of the table.
RunningCaller == CurSlot # NoSlot /\ Running(CurSlot)

\* The id thread.c:420-429 writes for the context the trap came from.
OwnId == IF CurSlot # NoSlot THEN threads[CurSlot].id ELSE 0

\* C40: a trap whose number is outside 0..7 changes no descriptor, no table
\* slot, no counter and not the caller's gp_regs[0], and schedules with
\* request CURRENT, so that a Running caller goes on; trap 7 writes into
\* gp_regs[0] the id of the descriptor that owns the current context, 0 if
\* none does, changes nothing else and likewise lets a Running caller go on.
C40_UnknownTrapsAndThreadId ==
    [][/\ \A which \in UnknownTraps :
            _syscall_trapa(which, 0, 0) =>
               /\ UNCHANGED <<threads, thread_counter, global_counters,
                              counter_mem, semaphores>>
               /\ \A r0 \in R0Inputs :
                     TrapReturn(threads, which, current, r0) = r0
               /\ TrapRequest(which) = THREAD_SCHEDULE_CURRENT
               /\ RunningCaller => (current' = current /\ cpu' = cpu)
       /\ _syscall_trapa(7, 0, 0) =>
               /\ UNCHANGED <<threads, thread_counter, global_counters,
                              counter_mem, semaphores>>
               /\ ret' = OwnId
               /\ \A r0 \in R0Inputs :
                     TrapReturn(threads, 7, current, r0) = OwnId
               /\ RunningCaller => (current' = current /\ cpu' = cpu)]_vars

\* C40 witness: a created thread that shares the priority of main, which is
\* Running too, has asked for its id, got 3 and goes on running.
C40_Witness ==
    /\ ~fault
    /\ RunningCaller
    /\ threads[CurSlot].id = 3
    /\ cpu.self = 3
    /\ cpu.pc = "run"
    /\ ret = 3
    /\ Running(1)
    /\ threads[1].priority = threads[CurSlot].priority

====
